---- MODULE Spec2Model ----
(***************************************************************************)
(* figureflo: the WebGL fluid engine (hooks/useFluidSimulation.js,         *)
(* utils/fluidPrograms.js, utils/fluidHelpers.js) and the emotion blend    *)
(* (utils/emotionFluidMapping.js).                                         *)
(*                                                                         *)
(* Numbers.  JavaScript Numbers are modelled in fixed point: a numeric     *)
(* configuration field holds thousandths (Scale units per 1.0), a          *)
(* BACK_COLOR channel holds the integer Math.round leaves in it, the       *)
(* transition progress holds hundredths, and a blend factor is a fraction  *)
(* [num, den].  Every product is rounded to the nearest unit.              *)
(***************************************************************************)
EXTENDS Integers, Sequences, FiniteSets, TLC

VARIABLES
    emotionTransitioner,  \* the EmotionTransitioner object, or Null
    updateResult,         \* value returned by the last update() call, or Null
    setCount,             \* number of setEmotion calls made so far
    lastRequest,          \* the most recent setEmotion request, or Null
    updateCount,          \* update() calls since construction or the last setEmotion
    interrupted           \* the last setEmotion arrived while a transition was running

blendVars == <<emotionTransitioner, updateResult, setCount, lastRequest,
               updateCount, interrupted>>

VARIABLES
    mounted,                \* the component using the hook is mounted
    effectLive,             \* the init effect of the last commit returned its cleanup
    glRef,                  \* TRUE when glRef.current / extRef.current hold a context
    programsRef,            \* TRUE when programsRef.current holds the compiled programs
    fbosRef,                \* fbosRef.current: <<>> for {}, else <<record of buffers>>
    textures,               \* every texture created so far: id -> [width, height, by, stamp]
    clock,                  \* number of draw calls issued so far
    configRef,              \* configRef.current, the live configuration
    isReadyRef,             \* isReadyRef.current
    readyDep,               \* config.isReady as seen by the last commit
    canvas,                 \* canvas.width / canvas.height (the drawing buffer)
    client,                 \* canvas.clientWidth / clientHeight (layout size)
    emotionTransitionerRef, \* <<>> or <<transitioner>>
    rafPending,             \* handles of the scheduled animation-frame callbacks
    animationFrameRef,      \* animationFrameRef.current (0 for null)
    nextHandle,             \* next requestAnimationFrame handle
    testSplatTimers,        \* pending setTimeout(..., 1000) test-splat callbacks
    renderCount,            \* renderCountRef.current
    passes,                 \* GPU operations issued by the last handler that reached
                            \* the GPU code (animate, createSplat, test splat), in order
    handler,                \* that handler
    stepDt,                 \* dt passed to the last step()
    stepIn,                 \* velocity/dye read buffers at the start of the last step()
    stepOut,                \* velocity/dye read buffers at the end of the last step()
    resized,                \* the last frame reallocated the fields
    splatSince,             \* a createSplat call ran since the last step()
    testSplatSince,         \* the delayed test splat ran since the last step()
    displayKeywords,        \* keyword set of the display material's active program
    counts,                 \* how often each bounded operation has run
    lastCall,               \* the last call of a function the hook returns: [op, arg]
    thrown,                 \* the exception the last handler let escape ("" for none)
    programsValid           \* no shader or program of programsRef.current failed to build

hookVars == <<mounted, effectLive, glRef, programsRef, fbosRef, textures, clock,
              configRef, isReadyRef, readyDep, canvas, client, emotionTransitionerRef,
              rafPending, animationFrameRef, nextHandle, testSplatTimers, renderCount,
              passes, handler, stepDt, stepIn, stepOut, resized, splatSince,
              testSplatSince, displayKeywords, counts, lastCall, thrown, programsValid>>

VARIABLES
    utilIn,                 \* the arguments and environment of a utility function's call
    utilOut,                \* <<>> before the call, then <<what the call returned>>
    material                \* a Material object: its programs, its activeProgram

utilVars == <<utilIn, utilOut, material>>

vars == <<blendVars, hookVars, utilVars>>

Null == "null"

----------------------------------------------------------------------------
(* Numbers *)

Scale == 1000

Frac(n, d) == [num |-> n, den |-> d]

RoundDiv(x, d) == (2 * x + d) \div (2 * d)

\* round(x * n / d) computed without leaving 32 bits
MulDiv(x, n, d) == (x \div d) * n + RoundDiv((x % d) * n, d)

\* Math.round of a value held in thousandths: floor(v + 0.5)
MathRound(v) == (2 * v + Scale) \div (2 * Scale)

Min(a, b) == IF a < b THEN a ELSE b

----------------------------------------------------------------------------
(* utils/emotionFluidMapping.js *)

Cfg(colorful, bloomI, bloomT, sunrays, sunW, velD, denD, force, curl, pres, r, g, b) ==
    [ COLORFUL             |-> colorful,
      BLOOM_INTENSITY      |-> bloomI,
      BLOOM_THRESHOLD      |-> bloomT,
      SUNRAYS              |-> sunrays,
      SUNRAYS_WEIGHT       |-> sunW,
      VELOCITY_DISSIPATION |-> velD,
      DENSITY_DISSIPATION  |-> denD,
      SPLAT_FORCE          |-> force,
      CURL                 |-> curl,
      PRESSURE             |-> pres,
      BACK_COLOR           |-> [r |-> r, g |-> g, b |-> b] ]

\* names are sequences of one-character strings
Str_Joy        == <<"J", "o", "y">>
Str_Sadness    == <<"S", "a", "d", "n", "e", "s", "s">>
Str_Excitement == <<"E", "x", "c", "i", "t", "e", "m", "e", "n", "t">>
Str_Calmness   == <<"C", "a", "l", "m", "n", "e", "s", "s">>
Str_Anger      == <<"A", "n", "g", "e", "r">>
Str_Fear       == <<"F", "e", "a", "r">>
Str_Surprise   == <<"S", "u", "r", "p", "r", "i", "s", "e">>
Str_Neutral    == <<"N", "e", "u", "t", "r", "a", "l">>

\* names a caller may pass
Str_sadness == <<"s", "a", "d", "n", "e", "s", "s">>
Str_joy     == <<"j", "o", "y">>
Str_JOY     == <<"J", "O", "Y">>
Str_aNGER   == <<"a", "N", "G", "E", "R">>
Str_Bogus   == <<"B", "o", "g", "u", "s">>
Str_Empty   == <<>>
Str_proto   == <<"_", "_", "p", "r", "o", "t", "o", "_", "_">>

PresetNames ==
    { Str_Joy, Str_Sadness, Str_Excitement, Str_Calmness,
      Str_Anger, Str_Fear, Str_Surprise, Str_Neutral }

emotionPresets(n) ==
    CASE n = Str_Joy        -> Cfg(TRUE,  1200, 400, TRUE,  1000, 150,  800, 7000000, 35000, 800,  5, 5, 10)
      [] n = Str_Sadness    -> Cfg(FALSE,  300, 800, FALSE,  300, 400, 1200, 3000000, 15000, 600,  0, 0, 20)
      [] n = Str_Excitement -> Cfg(TRUE,  1500, 300, TRUE,  1200, 100,  600, 8000000, 40000, 850, 10, 0,  0)
      [] n = Str_Calmness   -> Cfg(FALSE,  600, 500, TRUE,   500, 500, 1000, 4000000, 20000, 700,  0, 10, 10)
      [] n = Str_Anger      -> Cfg(TRUE,  1000, 200, FALSE,  800,  50,  500, 9000000, 50000, 900, 20, 0,  0)
      [] n = Str_Fear       -> Cfg(FALSE,  400, 700, FALSE,  200, 300, 1500, 5000000, 25000, 750,  5, 0, 10)
      [] n = Str_Surprise   -> Cfg(TRUE,  1300, 350, TRUE,  1100, 120,  700, 7500000, 38000, 820,  8, 8,  0)
      [] n = Str_Neutral    -> Cfg(TRUE,   800, 600, TRUE,  1000, 200, 1000, 6000000, 30000, 800,  0, 0,  0)

Neutral == emotionPresets(Str_Neutral)

\* emotionPresets is an object literal: emotionPresets["__proto__"] is
\* Object.prototype, an object with none of the configuration fields
ObjectPrototype == [ inherited |-> "Object.prototype" ]

\* the outcome of a call that throws: blendEmotionConfigs reads
\* config1.BACK_COLOR.r, a TypeError when config1 has no BACK_COLOR
TypeError == [ thrown |-> "TypeError" ]

\* the names emotionPresets[name] is truthy for
TruthyNames == PresetNames \cup {Str_proto}

\* emotionPresets[name], for a name in TruthyNames
Lookup(n) == IF n = Str_proto THEN ObjectPrototype ELSE emotionPresets(n)

UpperCase ==
    [ c \in {"a", "b", "c", "d", "e", "f", "g", "i", "j", "l", "m", "n", "o",
             "p", "r", "s", "t", "u", "x", "y"} |->
      CASE c = "a" -> "A" [] c = "b" -> "B" [] c = "c" -> "C" [] c = "d" -> "D"
        [] c = "e" -> "E" [] c = "f" -> "F" [] c = "g" -> "G" [] c = "i" -> "I"
        [] c = "j" -> "J" [] c = "l" -> "L" [] c = "m" -> "M" [] c = "n" -> "N"
        [] c = "o" -> "O" [] c = "p" -> "P" [] c = "r" -> "R" [] c = "s" -> "S"
        [] c = "t" -> "T" [] c = "u" -> "U" [] c = "x" -> "X" [] c = "y" -> "Y" ]

toUpperCase(c) == IF c \in DOMAIN UpperCase THEN UpperCase[c] ELSE c

toLowerCase(c) ==
    IF \E l \in DOMAIN UpperCase : UpperCase[l] = c
    THEN CHOOSE l \in DOMAIN UpperCase : UpperCase[l] = c
    ELSE c

\* emotionName.charAt(0).toUpperCase() + emotionName.slice(1).toLowerCase()
NormalizeName(s) ==
    [ i \in 1..Len(s) |-> IF i = 1 THEN toUpperCase(s[i]) ELSE toLowerCase(s[i]) ]

lerp(a, b, t) == a + MulDiv(b - a, t.num, t.den)

\* factor > 0.5.  A factor marked "above" is a double slightly greater than
\* num/den (see Eased).
AboveHalf(factor) ==
    \/ 2 * factor.num > factor.den
    \/ 2 * factor.num = factor.den /\ "above" \in DOMAIN factor

blendEmotionConfigsEager(config1, config2, factor) ==
    LET channel(c2, c1) == MathRound(lerp(c2 * Scale, c1 * Scale, factor))
    IN  [ COLORFUL             |-> config1.COLORFUL,
          BLOOM_INTENSITY      |-> lerp(config2.BLOOM_INTENSITY, config1.BLOOM_INTENSITY, factor),
          BLOOM_THRESHOLD      |-> lerp(config2.BLOOM_THRESHOLD, config1.BLOOM_THRESHOLD, factor),
          SUNRAYS              |-> config1.SUNRAYS,
          SUNRAYS_WEIGHT       |-> lerp(config2.SUNRAYS_WEIGHT, config1.SUNRAYS_WEIGHT, factor),
          VELOCITY_DISSIPATION |-> lerp(config2.VELOCITY_DISSIPATION, config1.VELOCITY_DISSIPATION, factor),
          DENSITY_DISSIPATION  |-> lerp(config2.DENSITY_DISSIPATION, config1.DENSITY_DISSIPATION, factor),
          SPLAT_FORCE          |-> lerp(config2.SPLAT_FORCE, config1.SPLAT_FORCE, factor),
          CURL                 |-> lerp(config2.CURL, config1.CURL, factor),
          PRESSURE             |-> lerp(config2.PRESSURE, config1.PRESSURE, factor),
          BACK_COLOR           |-> [ r |-> channel(config2.BACK_COLOR.r, config1.BACK_COLOR.r),
                                     g |-> channel(config2.BACK_COLOR.g, config1.BACK_COLOR.g),
                                     b |-> channel(config2.BACK_COLOR.b, config1.BACK_COLOR.b) ] ]

\* factor = 0 gives config2, factor = 1 gives config1
blendEmotionConfigs(config1, config2, factor) ==
    LET hi == AboveHalf(factor)
        channel(c2, c1) == MathRound(lerp(c2 * Scale, c1 * Scale, factor))
    IN  [ COLORFUL             |-> IF hi THEN config1.COLORFUL ELSE config2.COLORFUL,
          BLOOM_INTENSITY      |-> lerp(config2.BLOOM_INTENSITY, config1.BLOOM_INTENSITY, factor),
          BLOOM_THRESHOLD      |-> lerp(config2.BLOOM_THRESHOLD, config1.BLOOM_THRESHOLD, factor),
          SUNRAYS              |-> IF hi THEN config1.SUNRAYS ELSE config2.SUNRAYS,
          SUNRAYS_WEIGHT       |-> lerp(config2.SUNRAYS_WEIGHT, config1.SUNRAYS_WEIGHT, factor),
          VELOCITY_DISSIPATION |-> lerp(config2.VELOCITY_DISSIPATION, config1.VELOCITY_DISSIPATION, factor),
          DENSITY_DISSIPATION  |-> lerp(config2.DENSITY_DISSIPATION, config1.DENSITY_DISSIPATION, factor),
          SPLAT_FORCE          |-> lerp(config2.SPLAT_FORCE, config1.SPLAT_FORCE, factor),
          CURL                 |-> lerp(config2.CURL, config1.CURL, factor),
          PRESSURE             |-> lerp(config2.PRESSURE, config1.PRESSURE, factor),
          BACK_COLOR           |-> [ r |-> channel(config2.BACK_COLOR.r, config1.BACK_COLOR.r),
                                     g |-> channel(config2.BACK_COLOR.g, config1.BACK_COLOR.g),
                                     b |-> channel(config2.BACK_COLOR.b, config1.BACK_COLOR.b) ] ]

getEmotionFluidConfigNoBlend(emotionName, confidence) ==
    LET normalizedName == NormalizeName(emotionName)
    IN  IF normalizedName \in PresetNames THEN emotionPresets(normalizedName) ELSE Neutral

getEmotionFluidConfigInclusive(emotionName, confidence) ==
    LET normalizedName == NormalizeName(emotionName)
        preset == IF normalizedName \in TruthyNames THEN Lookup(normalizedName) ELSE Neutral
    IN  IF 10 * confidence.num <= 7 * confidence.den
        THEN IF preset = ObjectPrototype
             THEN TypeError
             ELSE blendEmotionConfigs(preset, Neutral, confidence)
        ELSE preset

getEmotionFluidConfig(emotionName, confidence) ==
    LET normalizedName == NormalizeName(emotionName)
        \* emotionPresets[normalizedName] || emotionPresets.Neutral
        preset == IF normalizedName \in TruthyNames THEN Lookup(normalizedName) ELSE Neutral
    IN  IF 10 * confidence.num < 7 * confidence.den     \* confidence < 0.7
        THEN IF preset = ObjectPrototype
             THEN TypeError
             ELSE blendEmotionConfigs(preset, Neutral, confidence)
        ELSE preset

transitionSpeed == 2     \* 0.02, in hundredths

NewTransitioner(initialConfig) ==
    [ currentConfig      |-> initialConfig,
      targetConfig       |-> initialConfig,
      transitionProgress |-> 100 ]

TrSetEmotionKeepProgress(tr, emotionName, confidence) ==
    [ tr EXCEPT !.targetConfig = getEmotionFluidConfig(emotionName, confidence) ]

\* a setEmotion that jumps to the old target before starting the new transition
TrSetEmotionJump(tr, emotionName, confidence) ==
    IF getEmotionFluidConfig(emotionName, confidence) = TypeError
    THEN tr
    ELSE [ tr EXCEPT !.currentConfig      = tr.targetConfig,
                     !.targetConfig       = getEmotionFluidConfig(emotionName, confidence),
                     !.transitionProgress = 0 ]

\* a throwing getEmotionFluidConfig leaves both assignments undone
TrSetEmotion(tr, emotionName, confidence) ==
    IF getEmotionFluidConfig(emotionName, confidence) = TypeError
    THEN tr
    ELSE [ tr EXCEPT !.targetConfig       = getEmotionFluidConfig(emotionName, confidence),
                     !.transitionProgress = 0 ]

\* ease-in-out of t = p/100:  t < 0.5 ? 2*t*t : -1 + (4 - 2*t)*t.  Progress
\* is a sum of 0.02s held in a double: the 25th sum is 0.5000000000000001 and
\* its eased value 0.5000000000000004, so from p = 50 on the value is marked
\* as lying above the fraction.
Eased(p) ==
    IF p < 50 THEN Frac(2 * p * p, 10000)
              ELSE [ num |-> 400 * p - 2 * p * p - 10000, den |-> 10000, above |-> TRUE ]

TrUpdateSlow(tr) ==
    IF tr.transitionProgress < 100
    THEN LET t == Min(tr.transitionProgress + 1, 100)
         IN  [ tr EXCEPT !.transitionProgress = t,
                         !.currentConfig =
                             blendEmotionConfigs(tr.targetConfig, tr.currentConfig, Eased(t)) ]
    ELSE tr

TrUpdateUnclamped(tr) ==
    IF tr.transitionProgress <= 100
    THEN LET t == tr.transitionProgress + transitionSpeed
         IN  [ tr EXCEPT !.transitionProgress = t,
                         !.currentConfig =
                             blendEmotionConfigs(tr.targetConfig, tr.currentConfig, Eased(Min(t, 100))) ]
    ELSE tr

TrUpdateDecay(tr) ==
    IF tr.transitionProgress < 100
    THEN LET t == Min(tr.transitionProgress + transitionSpeed, 100)
         IN  [ tr EXCEPT !.transitionProgress = t,
                         !.currentConfig =
                             blendEmotionConfigs(tr.targetConfig, tr.currentConfig, Eased(t)) ]
    ELSE [ tr EXCEPT !.currentConfig =
                         blendEmotionConfigs(Neutral, tr.currentConfig, Frac(1, 2)) ]

\* an easing whose second half lacks the -1: factors up to 2
TrUpdateEaseNoOffset(tr) ==
    IF tr.transitionProgress < 100
    THEN LET t == Min(tr.transitionProgress + transitionSpeed, 100)
             easedT == IF t < 50 THEN Eased(t)
                       ELSE [ num |-> 400 * t - 2 * t * t, den |-> 10000, above |-> TRUE ]
         IN  [ tr EXCEPT !.transitionProgress = t,
                         !.currentConfig =
                             blendEmotionConfigs(tr.targetConfig, tr.currentConfig, easedT) ]
    ELSE tr

TrUpdate(tr) ==
    IF tr.transitionProgress < 100
    THEN LET t == Min(tr.transitionProgress + transitionSpeed, 100)
         IN  [ tr EXCEPT !.transitionProgress = t,
                         !.currentConfig =
                             blendEmotionConfigs(tr.targetConfig, tr.currentConfig, Eased(t)) ]
    ELSE tr

----------------------------------------------------------------------------
(* utils/fluidHelpers.js, utils/fluidPrograms.js: resolutions, buffers,    *)
(* draw calls.  A GPU state g is [fbos, tex, clock, log]: the buffer       *)
(* handles of fbosRef.current, the textures, the draw-call counter and the *)
(* operations issued so far by the running handler.                        *)

isMobile == FALSE      \* a desktop user agent

Merge(base, over) ==
    [ k \in DOMAIN base \cup DOMAIN over |->
        IF k \in DOMAIN over THEN over[k] ELSE base[k] ]

defaultConfig ==
    [ SIM_RESOLUTION       |-> 128,
      DYE_RESOLUTION       |-> IF isMobile THEN 512 ELSE 1024,
      DENSITY_DISSIPATION  |-> 1000,
      VELOCITY_DISSIPATION |-> 200,
      PRESSURE             |-> 800,
      PRESSURE_ITERATIONS  |-> 20,
      CURL                 |-> 30000,
      SPLAT_RADIUS         |-> 250,
      SPLAT_FORCE          |-> 6000000,
      SHADING              |-> TRUE,
      COLORFUL             |-> TRUE,
      BLOOM                |-> TRUE,
      BLOOM_ITERATIONS     |-> 8,
      BLOOM_RESOLUTION     |-> 256,
      BLOOM_INTENSITY      |-> 800,
      BLOOM_THRESHOLD      |-> 600,
      BLOOM_SOFT_KNEE      |-> 700,
      SUNRAYS              |-> TRUE,
      SUNRAYS_RESOLUTION   |-> 196,
      SUNRAYS_WEIGHT       |-> 1000,
      BACK_COLOR           |-> [r |-> 0, g |-> 0, b |-> 0],
      TRANSPARENT          |-> FALSE ]

\* { ...defaultConfig, ...config } with config = { isReady }
HostConfig(isReady) == Merge(defaultConfig, [isReady |-> isReady])

\* Math.round(resolution * aspectRatio), aspectRatio >= 1
getResolution(resolution, drawingBufferWidth, drawingBufferHeight) ==
    LET lo  == resolution
        big == IF drawingBufferWidth < drawingBufferHeight
               THEN RoundDiv(resolution * drawingBufferHeight, drawingBufferWidth)
               ELSE RoundDiv(resolution * drawingBufferWidth, drawingBufferHeight)
    IN  IF drawingBufferWidth > drawingBufferHeight
        THEN [width |-> big, height |-> lo]
        ELSE [width |-> lo, height |-> big]

Ref(f, r, i) == [f |-> f, r |-> r, i |-> i]
RD(f)  == Ref(f, "read", 0)
WR(f)  == Ref(f, "write", 0)
FB(f)  == Ref(f, "self", 0)
MIP(i) == Ref("bloomFramebuffers", "self", i)
Screen == Ref("screen", "self", 0)

\* the texture an FBO expression denotes; 0 is the default framebuffer,
\* "local" an FBO held in a local variable and not (yet) stored in fbosRef
Resolve(fbos, ref) ==
    CASE ref.f = "screen"            -> 0
      [] ref.f = "local"             -> ref.i
      [] ref.r = "read"              -> fbos[ref.f].read
      [] ref.r = "write"             -> fbos[ref.f].write
      [] ref.f = "bloomFramebuffers" -> fbos.bloomFramebuffers[ref.i]
      [] OTHER                       -> fbos[ref.f]

Sample(ref, unit) == [ref |-> ref, unit |-> unit]

\* one draw call: `samples` are the attach() calls whose units the bound
\* program's sampler uniforms name, `target` is the argument of blit
blit(g, prog, samples, target, arg) ==
    LET tid   == Resolve(g.fbos, target)
        entry == [ op     |-> "blit",
                   prog   |-> prog,
                   reads  |-> { [ref |-> x.ref, unit |-> x.unit, id |-> Resolve(g.fbos, x.ref)]
                                : x \in samples },
                   target |-> [ref |-> target, id |-> tid],
                   arg    |-> arg ]
    IN  [ g EXCEPT
            !.tex   = IF tid = 0 THEN @
                      ELSE [@ EXCEPT ![tid] = [@ EXCEPT !.by = prog, !.stamp = g.clock + 1]],
            !.clock = @ + 1,
            !.log   = Append(@, entry) ]

swapKeepsRoles(g, f) ==
    [ g EXCEPT
        !.log  = Append(@, [ op |-> "swap", prog |-> "", reads |-> {},
                             target |-> [ref |-> Ref(f, "pair", 0), id |-> 0],
                             arg |-> <<>> ]) ]

swap(g, f) ==
    [ g EXCEPT
        !.fbos = [@ EXCEPT ![f] = [@ EXCEPT !.read = g.fbos[f].write,
                                            !.write = g.fbos[f].read]],
        !.log  = Append(@, [ op |-> "swap", prog |-> "", reads |-> {},
                             target |-> [ref |-> Ref(f, "pair", 0), id |-> 0],
                             arg |-> <<>> ]) ]

\* createFBO: a new texture, cleared
createFBO(g, w, h) ==
    [ g EXCEPT !.tex = Append(@, [width |-> w, height |-> h, by |-> "alloc", stamp |-> 0]) ]

NewId(g) == Len(g.tex) + 1

setFBO(g, f, w, h) ==
    LET g1 == createFBO(g, w, h)
    IN  [ g1 EXCEPT !.fbos = [@ EXCEPT ![f] = NewId(g)] ]

\* resizeFBO(gl, target, w, h, ..., copyProgram): returns the new FBO's texture
resizeFBO(g, target, w, h) ==
    blit(createFBO(g, w, h), "copy", {Sample(target, 0)}, Ref("local", "self", NewId(g)), <<>>)

\* a resize that keeps the old write buffer
resizeDoubleFBOKeepsWrite(g, f, w, h) ==
    IF g.fbos[f].width = w /\ g.fbos[f].height = h
    THEN g
    ELSE LET g1 == resizeFBO(g, RD(f), w, h)
         IN  [ g1 EXCEPT !.fbos = [@ EXCEPT ![f] =
                 [read |-> NewId(g), write |-> g.fbos[f].write, width |-> w, height |-> h]] ]

\* resizeDoubleFBO(gl, target, w, h, ..., copyProgram), target = fbos[f]
resizeDoubleFBO(g, f, w, h) ==
    IF g.fbos[f].width = w /\ g.fbos[f].height = h
    THEN g
    ELSE LET g1 == resizeFBO(g, RD(f), w, h)
             g2 == createFBO(g1, w, h)
         IN  [ g2 EXCEPT !.fbos = [@ EXCEPT ![f] =
                 [read |-> NewId(g), write |-> NewId(g1), width |-> w, height |-> h]] ]

\* fbosRef.current[f] = createDoubleFBO(...)
setDoubleFBO(g, f, w, h) ==
    LET g1 == createFBO(createFBO(g, w, h), w, h)
    IN  [ g1 EXCEPT !.fbos = [@ EXCEPT ![f] =
            [read |-> NewId(g), write |-> NewId(g) + 1, width |-> w, height |-> h]] ]

\* a pyramid that always has BLOOM_ITERATIONS levels
RECURSIVE BloomLevelsAll(_, _, _, _)
BloomLevelsAll(g, cfg, bloomRes, i) ==
    IF i >= cfg.BLOOM_ITERATIONS
    THEN g
    ELSE LET g1 == createFBO(g, bloomRes.width \div (2 ^ (i + 1)),
                             bloomRes.height \div (2 ^ (i + 1)))
         IN  BloomLevelsAll(
               [ g1 EXCEPT !.fbos = [@ EXCEPT !.bloomFramebuffers = Append(@, NewId(g))] ],
               cfg, bloomRes, i + 1)

RECURSIVE BloomLevels(_, _, _, _)
BloomLevels(g, cfg, bloomRes, i) ==
    LET width  == bloomRes.width \div (2 ^ (i + 1))
        height == bloomRes.height \div (2 ^ (i + 1))
    IN  IF i >= cfg.BLOOM_ITERATIONS \/ width < 2 \/ height < 2
        THEN g
        ELSE LET g1 == createFBO(g, width, height)
             IN  BloomLevels(
                   [ g1 EXCEPT !.fbos = [@ EXCEPT !.bloomFramebuffers = Append(@, NewId(g))] ],
                   cfg, bloomRes, i + 1)

EmptyFbos ==
    [ dye |-> 0, velocity |-> 0, divergence |-> 0, curl |-> 0, pressure |-> 0,
      bloom |-> 0, bloomFramebuffers |-> <<>>, sunrays |-> 0, sunraysTemp |-> 0 ]

initFramebuffers(g, cfg, drawingBuffer) ==
    LET simRes     == getResolution(cfg.SIM_RESOLUTION, drawingBuffer.width, drawingBuffer.height)
        dyeRes     == getResolution(cfg.DYE_RESOLUTION, drawingBuffer.width, drawingBuffer.height)
        bloomRes   == getResolution(cfg.BLOOM_RESOLUTION, drawingBuffer.width, drawingBuffer.height)
        sunraysRes == getResolution(cfg.SUNRAYS_RESOLUTION, drawingBuffer.width, drawingBuffer.height)
        g1 == setDoubleFBO(g, "dye", dyeRes.width, dyeRes.height)
        g2 == setDoubleFBO(g1, "velocity", simRes.width, simRes.height)
        g3 == setFBO(g2, "divergence", simRes.width, simRes.height)
        g4 == setFBO(g3, "curl", simRes.width, simRes.height)
        g5 == setDoubleFBO(g4, "pressure", simRes.width, simRes.height)
        g6 == setFBO(g5, "bloom", bloomRes.width, bloomRes.height)
        g7 == BloomLevels([g6 EXCEPT !.fbos = [@ EXCEPT !.bloomFramebuffers = <<>>]],
                          cfg, bloomRes, 0)
        g8 == setFBO(g7, "sunrays", sunraysRes.width, sunraysRes.height)
    IN  setFBO(g8, "sunraysTemp", sunraysRes.width, sunraysRes.height)

----------------------------------------------------------------------------
(* hooks/useFluidSimulation.js: step, render, createSplat *)

RECURSIVE PressureIterations(_, _, _)
PressureIterations(g, cfg, i) ==
    IF i >= cfg.PRESSURE_ITERATIONS
    THEN g
    ELSE PressureIterations(
           swap(blit(g, "pressure",
                     {Sample(FB("divergence"), 0), Sample(RD("pressure"), 1)},
                     WR("pressure"), <<>>),
                "pressure"),
           cfg, i + 1)

stepDivergenceFirst(g, cfg, dt) ==
    LET curl       == blit(g, "curl", {Sample(RD("velocity"), 0)}, FB("curl"), <<>>)
        divergence == blit(curl, "divergence", {Sample(RD("velocity"), 0)},
                           FB("divergence"), <<>>)
        vorticity  == swap(blit(divergence, "vorticity",
                                {Sample(RD("velocity"), 0), Sample(FB("curl"), 1)},
                                WR("velocity"), <<dt, cfg.CURL>>),
                           "velocity")
        clear      == swap(blit(vorticity, "clear", {Sample(RD("pressure"), 0)},
                                WR("pressure"), <<cfg.PRESSURE>>),
                           "pressure")
        pressure   == PressureIterations(clear, cfg, 0)
        gradient   == swap(blit(pressure, "gradientSubtract",
                                {Sample(RD("pressure"), 0), Sample(RD("velocity"), 1)},
                                WR("velocity"), <<>>),
                           "velocity")
        advectVel  == swap(blit(gradient, "advection", {Sample(RD("velocity"), 0)},
                                WR("velocity"), <<dt, cfg.VELOCITY_DISSIPATION>>),
                           "velocity")
    IN  swap(blit(advectVel, "advection",
                  {Sample(RD("velocity"), 0), Sample(RD("dye"), 1)},
                  WR("dye"), <<dt, cfg.DENSITY_DISSIPATION>>),
             "dye")

step(g, cfg, dt) ==
    LET curl       == blit(g, "curl", {Sample(RD("velocity"), 0)}, FB("curl"), <<>>)
        vorticity  == swap(blit(curl, "vorticity",
                                {Sample(RD("velocity"), 0), Sample(FB("curl"), 1)},
                                WR("velocity"), <<dt, cfg.CURL>>),
                           "velocity")
        divergence == blit(vorticity, "divergence", {Sample(RD("velocity"), 0)},
                           FB("divergence"), <<>>)
        clear      == swap(blit(divergence, "clear", {Sample(RD("pressure"), 0)},
                                WR("pressure"), <<cfg.PRESSURE>>),
                           "pressure")
        pressure   == PressureIterations(clear, cfg, 0)
        gradient   == swap(blit(pressure, "gradientSubtract",
                                {Sample(RD("pressure"), 0), Sample(RD("velocity"), 1)},
                                WR("velocity"), <<>>),
                           "velocity")
        advectVel  == swap(blit(gradient, "advection", {Sample(RD("velocity"), 0)},
                                WR("velocity"), <<dt, cfg.VELOCITY_DISSIPATION>>),
                           "velocity")
    IN  swap(blit(advectVel, "advection",
                  {Sample(RD("velocity"), 0), Sample(RD("dye"), 1)},
                  WR("dye"), <<dt, cfg.DENSITY_DISSIPATION>>),
             "dye")

RECURSIVE BloomDown(_, _, _)
BloomDown(g, i, last) ==
    IF i > Len(g.fbos.bloomFramebuffers)
    THEN g
    ELSE BloomDown(blit(g, "bloomBlur", {Sample(last, 0)}, MIP(i), <<>>), i + 1, MIP(i))

RECURSIVE BloomUp(_, _, _)
BloomUp(g, i, last) ==
    IF i < 1
    THEN g
    ELSE BloomUp(blit(g, "bloomBlur", {Sample(last, 0)}, MIP(i), <<>>), i - 1, MIP(i))

applyBloom(g, source, destination) ==
    LET n == Len(g.fbos.bloomFramebuffers)
    IN  IF n < 2
        THEN g
        ELSE LET prefilter == blit(g, "bloomPrefilter", {Sample(source, 0)}, destination, <<>>)
                 down      == BloomDown(prefilter, 1, destination)
                 up        == BloomUp(down, n - 1, MIP(n))
             IN  blit(up, "bloomFinal", {Sample(MIP(1), 0)}, destination, <<>>)

applySunrays(g, source, mask, destination) ==
    blit(blit(g, "sunraysMask", {Sample(source, 0)}, mask, <<>>),
         "sunrays", {Sample(mask, 0)}, destination, <<>>)

blurPassInPlace(g, target, temp) ==
    blit(blit(g, "blur", {Sample(target, 0)}, target, <<>>),
         "blur", {Sample(target, 0)}, target, <<>>)

\* iterations = 1 at the only call site
blurPass(g, target, temp) ==
    blit(blit(g, "blur", {Sample(target, 0)}, temp, <<>>),
         "blur", {Sample(temp, 0)}, target, <<>>)

drawDisplay(g, cfg) ==
    blit(g, "display",
         {Sample(RD("dye"), 0)}
           \cup (IF cfg.BLOOM THEN {Sample(FB("bloom"), 1)} ELSE {})
           \cup (IF cfg.SUNRAYS THEN {Sample(FB("sunrays"), 2)} ELSE {}),
         Screen, <<>>)

renderSwapsDye(g, cfg) ==
    LET bloom   == IF cfg.BLOOM THEN applyBloom(g, RD("dye"), FB("bloom")) ELSE g
        sunrays == IF cfg.SUNRAYS
                   THEN blurPass(applySunrays(bloom, RD("dye"), WR("dye"), FB("sunrays")),
                                 FB("sunrays"), FB("sunraysTemp"))
                   ELSE bloom
    IN  swap(drawDisplay(sunrays, cfg), "dye")

render(g, cfg) ==
    LET bloom   == IF cfg.BLOOM THEN applyBloom(g, RD("dye"), FB("bloom")) ELSE g
        sunrays == IF cfg.SUNRAYS
                   THEN blurPass(applySunrays(bloom, RD("dye"), WR("dye"), FB("sunrays")),
                                 FB("sunrays"), FB("sunraysTemp"))
                   ELSE bloom
    IN  drawDisplay(sunrays, cfg)

\* the dye pass issued before the velocity pass
splatPassesDyeFirst(g, x, y, dx, dy, color) ==
    LET dye == swap(blit(g, "splat", {Sample(RD("dye"), 0)}, WR("dye"),
                         <<x, y, color.r, color.g, color.b>>),
                    "dye")
    IN  swap(blit(dye, "splat", {Sample(RD("velocity"), 0)}, WR("velocity"),
                  <<x, y, dx, dy, 0>>),
             "velocity")

\* a splat that is dropped when the velocity field's last pass was a splat
splatPassesCoalesced(g, x, y, dx, dy, color) ==
    IF g.tex[g.fbos.velocity.read].by = "splat"
    THEN g
    ELSE swap(blit(swap(blit(g, "splat", {Sample(RD("velocity"), 0)}, WR("velocity"),
                             <<x, y, dx, dy, 0>>),
                        "velocity"),
                   "splat", {Sample(RD("dye"), 0)}, WR("dye"),
                   <<x, y, color.r, color.g, color.b>>),
              "dye")

\* the two passes of createSplat and of the delayed test splat
splatPasses(g, x, y, dx, dy, color) ==
    LET velocity == swap(blit(g, "splat", {Sample(RD("velocity"), 0)}, WR("velocity"),
                              <<x, y, dx, dy, 0>>),
                         "velocity")
    IN  swap(blit(velocity, "splat", {Sample(RD("dye"), 0)}, WR("dye"),
                  <<x, y, color.r, color.g, color.b>>),
             "dye")

\* updateKeywords: the keyword list handed to the display material
DisplayKeywords(cfg) ==
    (IF cfg.SHADING THEN {"SHADING"} ELSE {})
      \cup (IF cfg.BLOOM THEN {"BLOOM"} ELSE {})
      \cup (IF cfg.SUNRAYS THEN {"SUNRAYS"} ELSE {})

----------------------------------------------------------------------------
(* hooks/useFluidSimulation.js: the hook's effects, the animation loop and *)
(* the functions it returns, as the host (App.jsx) drives them.            *)

DtCap == 16666         \* 0.016666 s, in microseconds

MaxFrames  == 1        \* animation-frame callbacks
MaxRenders == 2        \* host renders (the mount included)
MaxCalls   == 1        \* createSplat, updateConfig and setEmotion calls, layout changes

\* the calls and layout changes made so far
Calls(c) == c.splats + c.configs + c.emotions + c.layouts

Size(w, h) == [width |-> w, height |-> h]
Sizes == { Size(800, 600), Size(600, 800) }
ElapsedMs == { 4, 60000 }
SplatInputs ==
    { [x |-> 500, y |-> 500, dx |-> 100000, dy |-> -50000, color |-> [r |-> 300, g |-> 0, b |-> 150]],
      [x |-> 1500, y |-> -200, dx |-> 0, dy |-> 0, color |-> [r |-> 2000, g |-> 2000, b |-> 0]] }
PartialConfigs ==
    { [BLOOM |-> FALSE, SHADING |-> FALSE],
      [PRESSURE_ITERATIONS |-> 3, SPLAT_RADIUS |-> 500, SUNRAYS |-> FALSE] }
HookRequests ==
    { [name |-> Str_sadness, confidence |-> Frac(1, 1)] }

Snap(g) ==
    << [ velocity |-> [id |-> g.fbos.velocity.read, tex |-> g.tex[g.fbos.velocity.read]],
         dye      |-> [id |-> g.fbos.dye.read, tex |-> g.tex[g.fbos.dye.read]] ] >>

InitHook ==
    /\ mounted = "unmounted"
    /\ effectLive = FALSE
    /\ glRef = FALSE
    /\ programsRef = FALSE
    /\ fbosRef = EmptyFbos
    /\ textures = <<>>
    /\ clock = 0
    /\ configRef = HostConfig(FALSE)
    /\ isReadyRef = FALSE
    /\ readyDep = FALSE
    /\ canvas = Size(300, 150)
    /\ client = Size(800, 600)
    /\ emotionTransitionerRef = <<>>
    /\ rafPending = {}
    /\ animationFrameRef = 0
    /\ nextHandle = 1
    /\ testSplatTimers = 0
    /\ renderCount = 0
    /\ passes = <<>>
    /\ handler = "none"
    /\ stepDt = 0
    /\ stepIn = <<>>
    /\ stepOut = <<>>
    /\ resized = FALSE
    /\ splatSince = FALSE
    /\ testSplatSince = FALSE
    /\ displayKeywords = {}
    /\ counts = [frames |-> 0, renders |-> 0, splats |-> 0, configs |-> 0,
                 emotions |-> 0, layouts |-> 0]
    /\ lastCall = [op |-> "none", arg |-> <<>>]
    /\ thrown = ""
    /\ programsValid = TRUE

\* resizeCanvas() returns true
\* a canvas whose size change goes unnoticed
resizeCanvasNever(canvasPresent, cv, cl) == FALSE

resizeCanvas(canvasPresent, cv, cl) == canvasPresent /\ cv # cl

ClampDtNone(elapsed) == elapsed * 1000

\* dt = Math.min((now - lastUpdateTime) / 1000, 0.016666), in microseconds
ClampDt(elapsed) == Min(elapsed * 1000, DtCap)

\* the part of a handler's outcome that animate() decides
AnimateEffects(a) ==
    /\ configRef' = a.cfg
    /\ fbosRef' = a.g.fbos
    /\ textures' = a.g.tex
    /\ clock' = a.g.clock
    /\ passes' = a.g.log
    /\ canvas' = a.canvas
    /\ emotionTransitionerRef' = a.tr
    /\ stepDt' = a.dt
    /\ stepIn' = a.stepIn
    /\ stepOut' = a.stepOut
    /\ resized' = a.resized
    /\ splatSince' = FALSE
    /\ testSplatSince' = FALSE
    /\ displayKeywords' = DisplayKeywords(a.cfg)
    /\ renderCount' = renderCount + 1
    /\ animationFrameRef' = nextHandle
    /\ nextHandle' = nextHandle + 1

\* a driver that steps before it advances the blend
animateStepsFirst(cfg, g, canvasPresent, cv, cl, trRef, elapsed) ==
    LET dt      == ClampDt(elapsed)
        changed == resizeCanvas(canvasPresent, cv, cl)
        tr1     == IF trRef # <<>> THEN <<TrUpdate(trRef[1])>> ELSE trRef
        cfg1    == IF trRef # <<>> THEN Merge(cfg, tr1[1].currentConfig) ELSE cfg
    IN  \E g1 \in { IF changed THEN initFramebuffers(g, cfg, cl) ELSE g } :
        \E g2 \in { step(g1, cfg, dt) } :
        \E g3 \in { render(g2, cfg1) } :
            AnimateEffects(
              [ cfg |-> cfg1, g |-> g3, canvas |-> IF changed THEN cl ELSE cv, tr |-> tr1,
                dt |-> dt, stepIn |-> Snap(g1), stepOut |-> Snap(g2), resized |-> changed ])

\* animate(): everything up to requestAnimationFrame.  The GPU state is
\* handed from resize to step to render as a value.
animate(cfg, g, canvasPresent, cv, cl, trRef, elapsed) ==
    LET dt      == ClampDt(elapsed)
        changed == resizeCanvas(canvasPresent, cv, cl)
        tr1     == IF trRef # <<>> THEN <<TrUpdate(trRef[1])>> ELSE trRef
        cfg1    == IF trRef # <<>> THEN Merge(cfg, tr1[1].currentConfig) ELSE cfg
    IN  \E g1 \in { IF changed THEN initFramebuffers(g, cfg, cl) ELSE g } :
        \E g2 \in { step(g1, cfg1, dt) } :
        \E g3 \in { render(g2, cfg1) } :
            AnimateEffects(
              [ cfg |-> cfg1, g |-> g3, canvas |-> IF changed THEN cl ELSE cv, tr |-> tr1,
                dt |-> dt, stepIn |-> Snap(g1), stepOut |-> Snap(g2), resized |-> changed ])

\* the requestAnimationFrame callback with handle h runs
Frame(h, elapsed) ==
    /\ h \in rafPending
    /\ counts.frames < MaxFrames
    /\ animate(configRef,
               [fbos |-> fbosRef, tex |-> textures, clock |-> clock, log |-> <<>>],
               mounted = "mounted", canvas, client, emotionTransitionerRef, elapsed)
    /\ rafPending' = (rafPending \ {h}) \cup {nextHandle}
    /\ handler' = "animate"
    /\ counts' = [counts EXCEPT !.frames = @ + 1]
    /\ UNCHANGED <<mounted, effectLive, glRef, programsRef, isReadyRef, readyDep, client,
                   testSplatTimers, lastCall, thrown, programsValid>>

\* a cleanup that leaves the scheduled callback in place
CleanupKeepsFrame(live, pending) == pending

\* the cleanup returned by the init effect
Cleanup(live, pending) ==
    IF live /\ animationFrameRef # 0 THEN pending \ {animationFrameRef} ELSE pending

\* a device that always hands out a context, with renderable formats when
\* it has no hardware one
getWebGLContextSoftware(outcome) == <<[formats |-> outcome # "noFormats"]>>

\* getWebGLContext(canvas) on a device with the given outcome: <<>> when it
\* throws 'WebGL not supported', else the context with ext.format* resolved
\* or null
getWebGLContext(outcome) ==
    IF outcome = "noContext" THEN <<>> ELSE <<[formats |-> outcome # "noFormats"]>>

\* a host render commits: the config effect runs (App passes a new config
\* object on every render), and the init effect re-runs when config.isReady
\* changed.  rectOk: the canvas's bounding rect is at least 10 x 10;
\* contextOk: getWebGLContext returns a context.
HostRenderWith(isReady, rectOk, outcome, elapsed) ==
    /\ mounted # "torn"
    /\ mounted' = "mounted"
    /\ isReadyRef' = isReady
    /\ readyDep' = isReady
    /\ counts' = [counts EXCEPT !.renders = @ + 1]
    /\ UNCHANGED <<client, lastCall, thrown>>
    /\ LET rerun == mounted = "unmounted" \/ isReady # readyDep
           cfg0  == HostConfig(isReady)
       IN  IF ~rerun
           THEN /\ configRef' = cfg0
                /\ UNCHANGED <<passes, handler, effectLive, glRef, programsRef, fbosRef, textures, clock,
                               programsValid, canvas, emotionTransitionerRef, rafPending,
                               animationFrameRef, nextHandle, testSplatTimers,
                               renderCount, stepDt, stepIn, stepOut, resized, splatSince,
                               testSplatSince, displayKeywords>>
           ELSE LET pending == Cleanup(effectLive, rafPending)
                    ctx     == getWebGLContext(outcome)
                IN  IF ~isReady \/ ~rectOk \/ ctx = <<>> \/ ~ctx[1].formats
                    THEN /\ effectLive' = (isReady /\ rectOk)
                         /\ canvas' = IF isReady /\ rectOk THEN client ELSE canvas
                         /\ configRef' = cfg0
                         /\ rafPending' = pending
                         \* with no renderable texture format the first
                         \* rgba.internalFormat of initFramebuffers throws, after
                         \* glRef, extRef and programsRef were assigned
                         /\ IF isReady /\ rectOk /\ ctx # <<>>
                            THEN glRef' = TRUE /\ programsRef' = TRUE /\ programsValid' = TRUE
                            ELSE UNCHANGED <<glRef, programsRef, programsValid>>
                         /\ UNCHANGED <<passes, handler, fbosRef, textures, clock,
                                        emotionTransitionerRef, animationFrameRef,
                                        nextHandle, testSplatTimers, renderCount, stepDt,
                                        stepIn, stepOut, resized, splatSince,
                                        testSplatSince, displayKeywords>>
                    ELSE \E g \in { initFramebuffers(
                                        [fbos |-> fbosRef, tex |-> textures,
                                         clock |-> clock, log |-> <<>>],
                                        cfg0, client) } :
                             /\ animate(cfg0, g, TRUE, client, client,
                                        <<NewTransitioner(Neutral)>>, elapsed)
                             /\ effectLive' = TRUE
                             /\ glRef' = TRUE
                             /\ programsRef' = TRUE
                             /\ programsValid' = (outcome # "badShader")
                             /\ rafPending' = pending \cup {nextHandle}
                             /\ testSplatTimers' = testSplatTimers + 1
                             /\ handler' = "init"

\* a host render on a device whose formats and shaders are all supported
HostRender(isReady, rectOk, contextOk, elapsed) ==
    HostRenderWith(isReady, rectOk, IF contextOk THEN "ok" ELSE "noContext", elapsed)

\* createSplat(x, y, dx, dy, color)
CreateSplat(in) ==
    /\ mounted = "mounted"
    /\ counts' = [counts EXCEPT !.splats = @ + 1]
    /\ handler' = "createSplat"
    /\ lastCall' = [op |-> "createSplat", arg |-> <<in>>]
    /\ thrown' = IF glRef /\ fbosRef = EmptyFbos THEN "TypeError" ELSE ""
    /\ IF glRef /\ mounted = "mounted" /\ fbosRef # EmptyFbos
       THEN LET g == splatPasses([fbos |-> fbosRef, tex |-> textures, clock |-> clock,
                                  log |-> <<>>],
                                 in.x, in.y, in.dx, in.dy, in.color)
            IN  /\ fbosRef' = g.fbos
                /\ textures' = g.tex
                /\ clock' = g.clock
                /\ passes' = g.log
                /\ splatSince' = TRUE
       ELSE /\ passes' = <<>>
            /\ UNCHANGED <<fbosRef, textures, clock, splatSince>>
    /\ UNCHANGED <<mounted, effectLive, glRef, programsRef, configRef, isReadyRef, readyDep,
                   canvas, client, emotionTransitionerRef, rafPending, animationFrameRef,
                   nextHandle, testSplatTimers, renderCount, stepDt, stepIn, stepOut,
                   resized, testSplatSince, displayKeywords, programsValid>>

\* the setTimeout(..., 1000) callback of the init effect
TestSplat ==
    /\ testSplatTimers > 0
    /\ testSplatTimers' = testSplatTimers - 1
    /\ handler' = "testSplat"
    /\ IF glRef /\ mounted = "mounted"
       THEN LET g == splatPasses([fbos |-> fbosRef, tex |-> textures, clock |-> clock,
                                  log |-> <<>>],
                                 500, 500, 10000, 10000, [r |-> 500, g |-> 200, b |-> 800])
            IN  /\ fbosRef' = g.fbos
                /\ textures' = g.tex
                /\ clock' = g.clock
                /\ passes' = g.log
                /\ testSplatSince' = TRUE
       ELSE /\ passes' = <<>>
            /\ UNCHANGED <<fbosRef, textures, clock, testSplatSince>>
    /\ UNCHANGED <<mounted, effectLive, glRef, programsRef, configRef, isReadyRef, readyDep,
                   canvas, client, emotionTransitionerRef, rafPending, animationFrameRef,
                   nextHandle, renderCount, stepDt, stepIn, stepOut, resized, splatSince,
                   displayKeywords, counts, lastCall, thrown, programsValid>>

\* a merge that starts from the defaults again
updateConfigReplace(cfg, newConfig) == Merge(defaultConfig, newConfig)

\* configRef.current = { ...configRef.current, ...newConfig }
updateConfig(cfg, newConfig) == Merge(cfg, newConfig)

\* the hook's updateConfig(newConfig), with its updateKeywords()
UpdateConfig(newConfig) ==
    /\ mounted = "mounted"
    /\ counts' = [counts EXCEPT !.configs = @ + 1]
    /\ configRef' = updateConfig(configRef, newConfig)
    /\ displayKeywords' = IF programsRef THEN DisplayKeywords(configRef') ELSE displayKeywords
    /\ lastCall' = [op |-> "updateConfig", arg |-> <<newConfig>>]
    /\ thrown' = ""
    /\ UNCHANGED <<programsValid, passes, handler, mounted, effectLive, glRef, programsRef, fbosRef, textures, clock,
                   isReadyRef, readyDep, canvas, client, emotionTransitionerRef, rafPending,
                   animationFrameRef, nextHandle, testSplatTimers, renderCount, stepDt,
                   stepIn, stepOut, resized, splatSince, testSplatSince>>

\* the hook's setEmotion(emotionName, confidence)
HookSetEmotion(req) ==
    /\ mounted = "mounted"
    /\ counts' = [counts EXCEPT !.emotions = @ + 1]
    /\ emotionTransitionerRef' =
          IF emotionTransitionerRef # <<>>
          THEN <<TrSetEmotion(emotionTransitionerRef[1], req.name, req.confidence)>>
          ELSE emotionTransitionerRef
    /\ lastCall' = [op |-> "setEmotion", arg |-> <<req>>]
    /\ thrown' = ""
    /\ UNCHANGED <<programsValid, passes, handler, mounted, effectLive, glRef, programsRef, fbosRef, textures, clock,
                   configRef, isReadyRef, readyDep, canvas, client, rafPending,
                   animationFrameRef, nextHandle, testSplatTimers, renderCount, stepDt,
                   stepIn, stepOut, resized, splatSince, testSplatSince, displayKeywords>>

\* the page lays the canvas out at another size
Layout(size) ==
    /\ mounted = "mounted"
    /\ size # client
    /\ client' = size
    /\ counts' = [counts EXCEPT !.layouts = @ + 1]
    /\ UNCHANGED <<mounted, effectLive, glRef, programsRef, fbosRef, textures, clock,
                   configRef, isReadyRef, readyDep, canvas, emotionTransitionerRef,
                   rafPending, animationFrameRef, nextHandle, testSplatTimers, renderCount,
                   passes, handler, stepDt, stepIn, stepOut, resized, splatSince,
                   testSplatSince, displayKeywords, lastCall, thrown, programsValid>>

\* the component unmounts: the init effect's cleanup runs, the canvas ref is cleared
Unmount ==
    /\ mounted = "mounted"
    /\ mounted' = "torn"
    /\ rafPending' = Cleanup(effectLive, rafPending)
    /\ effectLive' = FALSE
    /\ UNCHANGED <<passes, handler, glRef, programsRef, fbosRef, textures, clock, configRef, isReadyRef,
                   readyDep, canvas, client, emotionTransitionerRef, animationFrameRef,
                   nextHandle, testSplatTimers, renderCount, stepDt, stepIn, stepOut,
                   resized, splatSince, testSplatSince, displayKeywords, counts,
                   lastCall, thrown, programsValid>>

\* no utility function is under test
InitUtilIdle ==
    /\ utilIn = <<>>
    /\ utilOut = <<>>
    /\ material = <<>>

InitBlendIdle ==
    /\ emotionTransitioner = NewTransitioner(Neutral)
    /\ updateResult = Null
    /\ setCount = 0
    /\ lastRequest = Null
    /\ updateCount = 0
    /\ interrupted = FALSE

Init == InitHook /\ InitBlendIdle /\ InitUtilIdle

Next ==
    \/ /\ \/ \E isReady \in BOOLEAN, rectOk \in BOOLEAN, contextOk \in BOOLEAN,
                elapsed \in ElapsedMs :
                   /\ counts.renders < MaxRenders
                   /\ HostRender(isReady, rectOk, contextOk, elapsed)
          \/ \E h \in rafPending, elapsed \in ElapsedMs : Frame(h, elapsed)
          \/ \E in \in SplatInputs : Calls(counts) < MaxCalls /\ CreateSplat(in)
          \/ TestSplat
          \/ \E newConfig \in PartialConfigs :
                Calls(counts) < MaxCalls /\ UpdateConfig(newConfig)
          \/ \E req \in HookRequests : Calls(counts) < MaxCalls /\ HookSetEmotion(req)
          \/ \E size \in Sizes : Calls(counts) < MaxCalls /\ Layout(size)
          \/ Unmount
       /\ UNCHANGED <<blendVars, utilVars>>

Spec == Init /\ [][Next]_vars

----------------------------------------------------------------------------
(* Properties of the GPU passes a handler issues (Spec). *)

\* the GPU state as the refs hold it
Gpu == [fbos |-> fbosRef, tex |-> textures, clock |-> clock, log |-> <<>>]

FrameHandlers == {"animate", "init"}
DoubleFields == {"velocity", "dye", "pressure"}
RenderPrograms ==
    {"bloomPrefilter", "bloomBlur", "bloomFinal", "sunraysMask", "sunrays", "blur", "display"}

IsBlit(e) == e.op = "blit"
Blits(log) == SelectSeq(log, IsBlit)
PassOf(e) == <<e.prog, e.target.ref.f>>
HasPass(log, prog) == \E i \in 1..Len(log) : log[i].op = "blit" /\ log[i].prog = prog

\* the passes of step with k pressure iterations: program and field written
StepOrder(k) ==
    << <<"curl", "curl">>, <<"vorticity", "velocity">>, <<"divergence", "divergence">>,
       <<"clear", "pressure">> >>
      \o [i \in 1..k |-> <<"pressure", "pressure">>]
      \o << <<"gradientSubtract", "velocity">>, <<"advection", "velocity">>,
            <<"advection", "dye">> >>

FrameOrdered(log) ==
    LET b == Blits(log)
    IN  \E k \in 0..Len(b) :
            /\ Len(b) > k + 7
            /\ \A i \in 1..(k + 7) : PassOf(b[i]) = StepOrder(k)[i]
            /\ \A i \in (k + 8)..Len(b) : b[i].prog \in RenderPrograms
            /\ b[Len(b)].prog = "display"

\* C1: in every animation frame the step's passes are curl, vorticity,
\* divergence, pressure clear, the pressure iterations, gradient subtraction,
\* velocity advection, dye advection, in that order, and every render pass of
\* the frame (bloom, sunrays, blur, display) comes after the dye advection.
C1_PassOrder == handler \in FrameHandlers => FrameOrdered(passes)

C1_Witness ==
    /\ handler = "animate"
    /\ HasPass(passes, "pressure")
    /\ HasPass(passes, "bloomFinal")
    /\ HasPass(passes, "sunrays")

NoSelfSampling(log) ==
    \A i \in 1..Len(log) :
        log[i].op = "blit" => \A r \in log[i].reads : r.id # log[i].target.id

\* the sizes a field may be resized to
ResizeSizes ==
    { getResolution(r, s.width, s.height) : r \in {128, 1024}, s \in Sizes }

\* C2: no pass of step, createSplat, the test splat or render samples the
\* texture it renders into, and neither does the copy pass of resizeFBO when
\* a field of the current state is resized.
C2_NoSelfSampling ==
    /\ NoSelfSampling(passes)
    /\ glRef => \A f \in DoubleFields, s \in ResizeSizes :
                    NoSelfSampling(resizeDoubleFBO(Gpu, f, s.width, s.height).log)

C2_Witness ==
    /\ handler = "animate"
    /\ resized
    /\ HasPass(passes, "blur")
    /\ HasPass(passes, "bloomBlur")
    /\ \E s \in ResizeSizes : HasPass(resizeDoubleFBO(Gpu, "dye", s.width, s.height).log, "copy")

WritesDouble(e) == e.op = "blit" /\ e.target.ref.f \in DoubleFields

\* pass i reads the read buffer of the field it writes and writes the write buffer
ReadsReadWritesWrite(e) ==
    /\ e.target.ref.r = "write"
    /\ \E r \in e.reads : r.ref = RD(e.target.ref.f)

SwapFollows(log, i) ==
    /\ i < Len(log)
    /\ log[i + 1].op = "swap"
    /\ log[i + 1].target.ref.f = log[i].target.ref.f

\* the passes before j that completed a new state of field f
Completed(log, j, f, scratch) ==
    { i \in 1..(j - 1) : WritesDouble(log[i]) /\ log[i].target.ref.f = f
                            /\ log[i].prog \notin scratch }

Max(S) == CHOOSE x \in S : \A y \in S : y <= x

\* every pass that samples a field's read buffer gets the texture the last
\* completed write of that field went to
ReadIsLatest(log, scratch) ==
    \A j \in 1..Len(log) :
        log[j].op = "blit" =>
            \A r \in log[j].reads :
                (r.ref.f \in DoubleFields /\ r.ref.r = "read"
                   /\ Completed(log, j, r.ref.f, scratch) # {})
                    => r.id = log[Max(Completed(log, j, r.ref.f, scratch))].target.id

\* between handlers a field's read texture is at least as new as its write
\* texture, unless the write texture was last used as scratch
ReadIsNewest(scratch) ==
    glRef => \A f \in DoubleFields :
                \/ textures[fbosRef[f].read].stamp >= textures[fbosRef[f].write].stamp
                \/ textures[fbosRef[f].write].by \in scratch

PingPong(log, scratch) ==
    /\ \A i \in 1..Len(log) :
           WritesDouble(log[i]) =>
               /\ ReadsReadWritesWrite(log[i])
               /\ log[i].prog \notin scratch => SwapFollows(log, i)
    /\ ReadIsLatest(log, scratch)
    /\ ReadIsNewest(scratch)

\* C3 (amended): every pass that writes velocity, dye or pressure reads the
\* field's read buffer, writes its write buffer and is followed by the
\* field's swap, so every later pass that samples the read buffer gets the
\* most recently completed state; the one exception is render's sunrays mask
\* pass, which writes dye.write as scratch space and is not followed by a swap.
C3_PingPongExceptSunraysMask == PingPong(passes, {"sunraysMask"})

\* C3 as stated: no write buffer is written without a following swap.
C3_AsStated == PingPong(passes, {})

C3_Witness ==
    /\ handler = "animate"
    /\ HasPass(passes, "sunraysMask")
    /\ HasPass(passes, "advection")
    /\ textures[fbosRef.dye.write].by = "sunraysMask"

IsFrameStep == handler' \in FrameHandlers /\ renderCount' # renderCount

\* C4 (amended): a frame that is not the first of an initialisation starts
\* its step from the velocity and dye read buffers the previous frame's step
\* left, unless a createSplat call, the delayed test splat scheduled by the
\* initialisation, or a resize reallocation happened in between; and render
\* leaves both read buffers as the step left them.
C4_StateCarriedOver ==
    /\ [][ (IsFrameStep /\ handler' = "animate" /\ ~resized' /\ ~splatSince
              /\ ~testSplatSince) => stepIn' = stepOut ]_vars
    /\ [](handler \in FrameHandlers => Snap(Gpu) = stepOut)

\* C4 as stated: only createSplat and resize are excepted.
C4_AsStated ==
    /\ [][ (IsFrameStep /\ handler' = "animate" /\ ~resized' /\ ~splatSince)
              => stepIn' = stepOut ]_vars
    /\ [](handler \in FrameHandlers => Snap(Gpu) = stepOut)

C4_Witness ==
    /\ handler = "animate"
    /\ counts.frames > 0
    /\ ~resized
    /\ counts.splats = 0
    /\ testSplatTimers > 0
    /\ HasPass(passes, "display")
    /\ Snap(Gpu) = stepOut

\* C5: the dt handed to step is at most 1/60 s, whatever time elapsed since
\* the previous frame (stepDt is in microseconds; 1/60 s = 50000/3 us).
C5_DtAtMostSixtieth == 3 * stepDt <= 50000

C5_Witness ==
    /\ handler = "animate"
    /\ counts.frames > 0
    /\ stepDt = DtCap

----------------------------------------------------------------------------
(* The EmotionTransitioner driven directly: any interleaving of setEmotion *)
(* and update on a freshly constructed object.  utilIn keeps the current   *)
(* configuration as it was when setEmotion was last called.                *)

MaxSets == 2
MaxUpdates == 52

BlendRequests ==
    { [name |-> Str_Joy,     confidence |-> Frac(1, 1)],
      [name |-> Str_sadness, confidence |-> Frac(1, 2)],
      [name |-> Str_Anger,   confidence |-> Frac(0, 1)] }

InitBlend ==
    /\ emotionTransitioner = NewTransitioner(Neutral)
    /\ updateResult = Null
    /\ setCount = 0
    /\ lastRequest = Null
    /\ updateCount = 0
    /\ interrupted = FALSE
    /\ InitHook
    /\ InitUtilIdle

SetEmotion(req) ==
    /\ setCount < MaxSets
    /\ emotionTransitioner' = TrSetEmotion(emotionTransitioner, req.name, req.confidence)
    /\ setCount' = setCount + 1
    /\ lastRequest' = req
    /\ updateCount' = 0
    /\ interrupted' = (emotionTransitioner.transitionProgress < 100)
    /\ utilIn' = <<emotionTransitioner.currentConfig>>
    /\ UNCHANGED <<updateResult, hookVars, utilOut, material>>

Update ==
    /\ updateCount < MaxUpdates
    /\ emotionTransitioner' = TrUpdate(emotionTransitioner)
    /\ updateResult' = emotionTransitioner'.currentConfig
    /\ updateCount' = updateCount + 1
    /\ UNCHANGED <<setCount, lastRequest, interrupted, hookVars, utilVars>>

NextBlend ==
    \/ \E req \in BlendRequests : SetEmotion(req)
    \/ Update

SpecBlend == InitBlend /\ [][NextBlend]_vars

IsSetEmotionStep == setCount' = setCount + 1
IsUpdateStep == updateCount' = updateCount + 1

RequestedConfig == getEmotionFluidConfig(lastRequest.name, lastRequest.confidence)

\* C6: after setEmotion, 50 update() calls (and no fewer) bring progress to 1,
\* and from then on update() returns the target configuration in every field
\* (the Joy preset for setEmotion('Joy', 1.0)), whatever the configuration was
\* when the transition started.
C6_TransitionTerminates ==
    setCount > 0 =>
        /\ updateCount < 50 => emotionTransitioner.transitionProgress < 100
        /\ updateCount >= 50 =>
              /\ emotionTransitioner.transitionProgress = 100
              /\ updateResult = emotionTransitioner.targetConfig
              /\ lastRequest = [name |-> Str_Joy, confidence |-> Frac(1, 1)]
                    => updateResult = emotionPresets(Str_Joy)

C6_Witness ==
    /\ setCount = 2
    /\ interrupted
    /\ lastRequest = [name |-> Str_Joy, confidence |-> Frac(1, 1)]
    /\ updateCount = 50
    /\ updateResult = emotionPresets(Str_Joy)

\* C7: once progress is 1, an update() call returns the same configuration and
\* changes neither current configuration, target configuration nor progress;
\* the engine stays in its last-set preset and does not decay toward Neutral.
C7_SettledUpdateIsNoOp ==
    [][ (IsUpdateStep /\ emotionTransitioner.transitionProgress = 100) =>
           /\ emotionTransitioner' = emotionTransitioner
           /\ updateResult' = emotionTransitioner.currentConfig ]_vars

C7_Witness ==
    /\ setCount > 0
    /\ updateCount = 52
    /\ emotionTransitioner.transitionProgress = 100
    /\ emotionTransitioner.currentConfig = emotionPresets(Str_Joy)
    /\ updateResult = emotionPresets(Str_Joy)

\* C8: in every reachable state progress lies in [0,1], and progress = 1 goes
\* with current configuration = target configuration.
C8_ProgressInRange ==
    /\ emotionTransitioner.transitionProgress >= 0
    /\ emotionTransitioner.transitionProgress <= 100
    /\ emotionTransitioner.transitionProgress = 100 =>
          emotionTransitioner.currentConfig = emotionTransitioner.targetConfig

C8_Witness ==
    /\ setCount = 2
    /\ interrupted
    /\ emotionTransitioner.transitionProgress = 100
    /\ updateCount = 51
    /\ emotionTransitioner.currentConfig # Neutral

\* C9: setEmotion, settled or mid-transition, replaces the target with the new
\* request's configuration and resets progress to 0; update() then converges
\* to the most recent request's target.
C9_NewestRequestWins ==
    /\ [][ IsSetEmotionStep =>
              /\ emotionTransitioner'.targetConfig =
                     getEmotionFluidConfig(lastRequest'.name, lastRequest'.confidence)
              /\ emotionTransitioner'.transitionProgress = 0 ]_vars
    /\ [](setCount > 0 =>
              /\ emotionTransitioner.targetConfig = RequestedConfig
              /\ emotionTransitioner.transitionProgress = 100 =>
                    emotionTransitioner.currentConfig = RequestedConfig)

C9_Witness ==
    /\ setCount = 2
    /\ interrupted
    /\ lastRequest = [name |-> Str_sadness, confidence |-> Frac(1, 2)]
    /\ emotionTransitioner.transitionProgress = 100
    /\ emotionTransitioner.currentConfig = RequestedConfig
    /\ emotionTransitioner.currentConfig \notin {Neutral, emotionPresets(Str_Joy)}

----------------------------------------------------------------------------
(* One setEmotion(name, confidence) call on a transitioner constructed     *)
(* with any preset as its initial configuration.                           *)

TargetNames == PresetNames \cup {Str_joy, Str_JOY, Str_aNGER, Str_sadness, Str_Bogus, Str_Empty}

TargetConfidences ==
    { Frac(0, 1), Frac(3, 10), Frac(1, 2), Frac(69, 100), Frac(7, 10), Frac(1, 1) }

InitTarget ==
    /\ emotionTransitioner \in { NewTransitioner(emotionPresets(n)) : n \in PresetNames }
    /\ updateResult = Null
    /\ setCount = 0
    /\ lastRequest = Null
    /\ updateCount = 0
    /\ interrupted = FALSE
    /\ InitHook
    /\ InitUtilIdle

SetEmotionOnce(emotionName, confidence) ==
    /\ setCount = 0
    /\ emotionTransitioner' = TrSetEmotion(emotionTransitioner, emotionName, confidence)
    /\ setCount' = 1
    /\ lastRequest' = [name |-> emotionName, confidence |-> confidence]
    /\ UNCHANGED <<updateResult, updateCount, interrupted, hookVars, utilVars>>

NextTarget ==
    \E n \in TargetNames, c \in TargetConfidences : SetEmotionOnce(n, c)

SpecTarget == InitTarget /\ [][NextTarget]_vars

\* C10: setEmotion(name, 0.0) makes the target configuration equal to the
\* Neutral preset in every field, for every preset name including 'Anger'.
C10_ZeroConfidenceIsNeutral ==
    (setCount = 1 /\ lastRequest.confidence = Frac(0, 1)) =>
        emotionTransitioner.targetConfig = Neutral

C10_Witness ==
    /\ setCount = 1
    /\ lastRequest = [name |-> Str_Anger, confidence |-> Frac(0, 1)]
    /\ emotionTransitioner.currentConfig = emotionPresets(Str_Sadness)
    /\ emotionTransitioner.targetConfig = Neutral
    /\ emotionTransitioner.transitionProgress = 0

\* the preset a request names, for a name that normalizes to a preset name
NamedPreset == emotionPresets(NormalizeName(lastRequest.name))

ScalarFields ==
    { "BLOOM_INTENSITY", "BLOOM_THRESHOLD", "SUNRAYS_WEIGHT", "VELOCITY_DISSIPATION",
      "DENSITY_DISSIPATION", "SPLAT_FORCE", "CURL", "PRESSURE" }
Channels == {"r", "g", "b"}

\* v is Neutral's value n moved the fraction c of the way to the preset's p,
\* to the nearest unit
Proportional(v, n, p, c) ==
    LET e == c.den * (v - n) - (p - n) * c.num
    IN  2 * e <= c.den /\ -2 * e <= c.den

\* v is exactly n + (p - n) * c
ExactlyProportional(v, n, p, c) == c.den * (v - n) = (p - n) * c.num

BelowThreshold(c) == 10 * c.num < 7 * c.den
OfPreset == setCount = 1 /\ NormalizeName(lastRequest.name) \in PresetNames

\* C11 (amended): a confidence of 0.7 or more makes the named preset itself
\* the target; below 0.7 every scalar field of the target is
\* Neutral + (preset - Neutral) * confidence, every BACK_COLOR channel is that
\* value rounded to the nearest integer, and each boolean is the preset's
\* when confidence exceeds 0.5 and Neutral's otherwise.
C11_ThresholdAndPreBlend ==
    OfPreset =>
        LET c == lastRequest.confidence
            t == emotionTransitioner.targetConfig
        IN  IF ~BelowThreshold(c)
            THEN t = NamedPreset
            ELSE /\ \A f \in ScalarFields : Proportional(t[f], Neutral[f], NamedPreset[f], c)
                 /\ \A k \in Channels :
                        Proportional(t.BACK_COLOR[k], Neutral.BACK_COLOR[k],
                                     NamedPreset.BACK_COLOR[k], c)
                 /\ t.COLORFUL = IF 2 * c.num > c.den THEN NamedPreset.COLORFUL
                                                       ELSE Neutral.COLORFUL
                 /\ t.SUNRAYS = IF 2 * c.num > c.den THEN NamedPreset.SUNRAYS
                                                      ELSE Neutral.SUNRAYS

\* C11 as stated: below 0.7 each numeric field, the BACK_COLOR channels
\* included, is Neutral + (preset - Neutral) * confidence.
C11_AsStated ==
    OfPreset =>
        LET c == lastRequest.confidence
            t == emotionTransitioner.targetConfig
        IN  IF ~BelowThreshold(c)
            THEN t = NamedPreset
            ELSE /\ \A f \in ScalarFields : Proportional(t[f], Neutral[f], NamedPreset[f], c)
                 /\ \A k \in Channels :
                        ExactlyProportional(t.BACK_COLOR[k], Neutral.BACK_COLOR[k],
                                            NamedPreset.BACK_COLOR[k], c)

C11_Witness ==
    /\ setCount = 1
    /\ lastRequest = [name |-> Str_joy, confidence |-> Frac(1, 2)]
    /\ emotionTransitioner.targetConfig.BLOOM_INTENSITY = 1000
    /\ emotionTransitioner.targetConfig.BACK_COLOR = [r |-> 3, g |-> 3, b |-> 5]
    /\ emotionTransitioner.targetConfig.COLORFUL

----------------------------------------------------------------------------
(* One setEmotion call with a name taken from the emotion service's reply: *)
(* preset names, other spellings, unknown names and "__proto__".           *)

LookupNames == TargetNames \cup {Str_proto}

NextLookup ==
    \E n \in LookupNames, c \in TargetConfidences : SetEmotionOnce(n, c)

SpecLookup == InitTarget /\ [][NextLookup]_vars

\* C12: after setEmotion with a name that does not normalize to a preset
\* name the target is what the Neutral preset gives (Neutral itself, blended
\* with Neutral or not), at every confidence.
C12_UnknownNameIsNeutral ==
    (setCount = 1 /\ NormalizeName(lastRequest.name) \notin PresetNames) =>
        emotionTransitioner.targetConfig = Neutral

----------------------------------------------------------------------------
(* Transitions between presets whose boolean fields differ. *)

SwitchRequests ==
    { [name |-> Str_Fear,     confidence |-> Frac(1, 1)],
      [name |-> Str_Calmness, confidence |-> Frac(1, 1)] }

NextSwitch ==
    \/ \E req \in SwitchRequests : SetEmotion(req)
    \/ Update

SpecSwitch == InitBlend /\ [][NextSwitch]_vars

BooleanFields == {"COLORFUL", "SUNRAYS"}

\* C13: an update() leaves each boolean field as it was while the eased
\* factor is at most 0.5 and makes it the target's once the factor exceeds
\* 0.5; setEmotion itself changes neither, so within one transition a boolean
\* field changes at most once and is the target's from then on.
C13_BooleansSwitchAtHalf ==
    /\ [][ IsUpdateStep =>
              \A f \in BooleanFields :
                  emotionTransitioner'.currentConfig[f] =
                      IF AboveHalf(Eased(emotionTransitioner'.transitionProgress))
                      THEN emotionTransitioner.targetConfig[f]
                      ELSE emotionTransitioner.currentConfig[f] ]_vars
    /\ [][ IsSetEmotionStep =>
              emotionTransitioner'.currentConfig = emotionTransitioner.currentConfig ]_vars
    /\ []((updateCount > 0 /\ AboveHalf(Eased(emotionTransitioner.transitionProgress))) =>
              \A f \in BooleanFields :
                  emotionTransitioner.currentConfig[f] = emotionTransitioner.targetConfig[f])

C13_Witness ==
    /\ setCount = 2
    /\ interrupted
    /\ lastRequest.name = Str_Calmness
    /\ updateCount = 24
    /\ emotionTransitioner.transitionProgress = 48
    /\ ~emotionTransitioner.currentConfig.SUNRAYS
    /\ emotionTransitioner.targetConfig.SUNRAYS
    /\ ~emotionTransitioner.currentConfig.COLORFUL

\* ---------------------------------------------------------------------------
\* updateConfig

\* the step is a call of the hook's updateConfig
IsUpdateConfig == counts'.configs = counts.configs + 1

\* C14: updateConfig(partialConfig) sets exactly the fields present in the
\* partial configuration to the given values and leaves every other field of
\* the live configuration as it was.
C14_UpdateConfigMerges ==
    [][IsUpdateConfig =>
         LET p == lastCall'.arg[1]
         IN  /\ lastCall'.op = "updateConfig"
             /\ DOMAIN configRef' = DOMAIN configRef \cup DOMAIN p
             /\ \A f \in DOMAIN p : configRef'[f] = p[f]
             /\ \A f \in DOMAIN configRef \ DOMAIN p : configRef'[f] = configRef[f]]_vars

\* a partial update has set SPLAT_RADIUS and PRESSURE_ITERATIONS on the
\* configuration of an initialized engine and BLOOM kept its value
C14_Witness ==
    /\ lastCall.op = "updateConfig"
    /\ configRef.SPLAT_RADIUS = 500
    /\ configRef.PRESSURE_ITERATIONS = 3
    /\ configRef.BLOOM = defaultConfig.BLOOM
    /\ glRef

\* the fields no emotion preset carries
NonEmotionFields == DOMAIN defaultConfig \ DOMAIN Neutral

\* C15: the live configuration is changed only by partial merges and never
\* reset or replaced wholesale, so a field that is not emotion-controlled
\* changes its value only in a call of updateConfig.
C15_ConfigNeverReset ==
    [][\A f \in NonEmotionFields :
          configRef'[f] # configRef[f] => IsUpdateConfig]_vars

\* ---------------------------------------------------------------------------
\* createSplat

\* the step is a call of createSplat on an initialized engine
IsCreateSplat ==
    /\ counts'.splats = counts.splats + 1
    /\ glRef
    /\ fbosRef # EmptyFbos

\* log entry e is a splat pass that samples the read texture of field f, draws
\* into its write texture and carries the uniforms arg
SplatPassOn(e, f, fbos, arg) ==
    /\ e.op = "blit"
    /\ e.prog = "splat"
    /\ e.reads = {[ref |-> RD(f), unit |-> 0, id |-> fbos[f].read]}
    /\ e.target = [ref |-> WR(f), id |-> fbos[f].write]
    /\ e.arg = arg

SwapOf(e, f) == e.op = "swap" /\ e.target.ref = Ref(f, "pair", 0)

\* the fields createSplat has no business with
OtherFields == DOMAIN EmptyFbos \ {"velocity", "dye"}

\* C16: createSplat(x, y, dx, dy, color) on an initialized engine issues exactly
\* a velocity splat of (dx, dy) at (x, y), a velocity swap, a dye splat of
\* color at the same (x, y) and a dye swap, in this order, and modifies neither
\* the pressure, curl, divergence, bloom and sunrays buffers nor the
\* configuration.
C16_SplatTwoPasses ==
    [][IsCreateSplat =>
         LET in == lastCall'.arg[1]
         IN  /\ lastCall'.op = "createSplat"
             /\ Len(passes') = 4
             /\ SplatPassOn(passes'[1], "velocity", fbosRef, <<in.x, in.y, in.dx, in.dy, 0>>)
             /\ SwapOf(passes'[2], "velocity")
             /\ SplatPassOn(passes'[3], "dye", fbosRef,
                            <<in.x, in.y, in.color.r, in.color.g, in.color.b>>)
             /\ SwapOf(passes'[4], "dye")
             /\ fbosRef'.velocity = [fbosRef.velocity EXCEPT !.read = fbosRef.velocity.write,
                                                              !.write = fbosRef.velocity.read]
             /\ fbosRef'.dye = [fbosRef.dye EXCEPT !.read = fbosRef.dye.write,
                                                    !.write = fbosRef.dye.read]
             /\ \A f \in OtherFields : fbosRef'[f] = fbosRef[f]
             /\ Len(textures') = Len(textures)
             /\ \A i \in 1..Len(textures) :
                    i \notin {fbosRef.velocity.write, fbosRef.dye.write}
                        => textures'[i] = textures[i]
             /\ configRef' = configRef]_vars

\* a splat outside the unit square has been applied to an initialized engine
C16_Witness ==
    /\ handler = "createSplat"
    /\ lastCall.op = "createSplat"
    /\ lastCall.arg[1].x = 1500
    /\ Len(passes) = 4
    /\ textures[fbosRef.velocity.read].by = "splat"
    /\ textures[fbosRef.dye.read].by = "splat"

MaxSplats == 3         \* createSplat calls in a row

\* an engine that initializes and then only receives splats and frames
NextSplat ==
    /\ \/ \E elapsed \in ElapsedMs :
             counts.renders < MaxRenders /\ HostRender(TRUE, TRUE, TRUE, elapsed)
       \/ \E h \in rafPending, elapsed \in ElapsedMs : Frame(h, elapsed)
       \/ \E in \in SplatInputs : counts.splats < MaxSplats /\ CreateSplat(in)
       \/ TestSplat
    /\ UNCHANGED <<blendVars, utilVars>>

SpecSplat == Init /\ [][NextSplat]_vars

\* C17: no rate limit and no coordinate bounds check: every createSplat call
\* on an initialized engine, whatever ran before it and whatever x and y are,
\* returns normally and adds one pass to the velocity field and one to the dye
\* field, so k calls add k velocity passes and k dye passes.
C17_EverySplatApplied ==
    [][IsCreateSplat =>
         LET in == lastCall'.arg[1]
             v  == passes'[1]
             d  == passes'[3]
         IN  /\ thrown' = ""
             /\ clock' = clock + 2
             /\ v.target.id = fbosRef'.velocity.read
             /\ textures'[v.target.id] =
                    [textures[v.target.id] EXCEPT !.by = "splat", !.stamp = clock + 1]
             /\ <<v.arg[1], v.arg[2]>> = <<in.x, in.y>>
             /\ d.target.id = fbosRef'.dye.read
             /\ textures'[d.target.id] =
                    [textures[d.target.id] EXCEPT !.by = "splat", !.stamp = clock + 2]
             /\ <<d.arg[1], d.arg[2]>> = <<in.x, in.y>>]_vars

\* three calls since the last frame, the last one outside the unit square:
\* both textures of each pair hold a splat and the newest is the one read next
C17_Witness ==
    /\ counts.splats = 3
    /\ handler = "createSplat"
    /\ lastCall.arg[1].x = 1500
    /\ textures[fbosRef.velocity.write].by = "splat"
    /\ textures[fbosRef.velocity.read].stamp = textures[fbosRef.velocity.write].stamp + 2
    /\ textures[fbosRef.dye.read].stamp = textures[fbosRef.dye.write].stamp + 2

\* ---------------------------------------------------------------------------
\* resize

\* the textures the fields of fbos refer to
FieldIds(fbos) ==
    UNION { {fbos[f].read, fbos[f].write} : f \in DoubleFields }
      \cup { fbos[f] : f \in {"divergence", "curl", "bloom", "sunrays", "sunraysTemp"} }
      \cup { fbos.bloomFramebuffers[i] : i \in 1..Len(fbos.bloomFramebuffers) }

\* the configuration entry that sets the resolution of field f
ResolutionOf(f, cfg) ==
    CASE f = "dye"                        -> cfg.DYE_RESOLUTION
      [] f = "bloom"                      -> cfg.BLOOM_RESOLUTION
      [] f \in {"sunrays", "sunraysTemp"} -> cfg.SUNRAYS_RESOLUTION
      [] OTHER                            -> cfg.SIM_RESOLUTION

\* texture t has the size that field f gets on a drawing buffer of size s
SizedFor(t, f, cfg, s) ==
    LET res == getResolution(ResolutionOf(f, cfg), s.width, s.height)
    IN  t.width = res.width /\ t.height = res.height

\* the step is a requestAnimationFrame callback
IsFrame == counts'.frames = counts.frames + 1

\* C18: in every frame, before the step, the canvas's size is compared with
\* its last-known size; when they differ every field is reallocated at the
\* resolution derived from the new size, so that the step starts from cleared
\* velocity and dye textures, and when they do not differ no field is
\* reallocated.
C18_ResizeReallocatesAll ==
    [][IsFrame =>
         LET changed == mounted = "mounted" /\ canvas # client
             old     == 1..Len(textures)
         IN  /\ resized' = changed
             /\ changed =>
                   /\ canvas' = client
                   /\ FieldIds(fbosRef') \cap old = {}
                   /\ Len(fbosRef'.bloomFramebuffers) > 0
                   /\ \A f \in DoubleFields :
                         /\ SizedFor(textures'[fbosRef'[f].read], f, configRef, client)
                         /\ SizedFor(textures'[fbosRef'[f].write], f, configRef, client)
                   /\ \A f \in {"divergence", "curl", "bloom", "sunrays", "sunraysTemp"} :
                         SizedFor(textures'[fbosRef'[f]], f, configRef, client)
                   /\ \A f \in {"velocity", "dye"} :
                         /\ stepIn'[1][f].id \notin old
                         /\ stepIn'[1][f].tex.by = "alloc"
             /\ ~changed =>
                   /\ canvas' = canvas
                   /\ Len(textures') = Len(textures)
                   /\ FieldIds(fbosRef') = FieldIds(fbosRef)]_vars

\* a frame has found the canvas laid out at another size and has reallocated
C18_Witness ==
    /\ handler = "animate"
    /\ resized
    /\ counts.layouts = 1
    /\ canvas = client
    /\ Len(textures) > Cardinality(FieldIds(fbosRef))

\* ---------------------------------------------------------------------------
\* initialization failures

\* what the device does with the init effect: everything works, getContext
\* returns null, no half-float format is renderable (getSupportedFormat
\* returns null), or a shader fails to compile
GpuOutcomes == {"ok", "noContext", "noFormats", "badShader"}

NextInit ==
    /\ \/ \E isReady \in BOOLEAN, rectOk \in BOOLEAN, outcome \in GpuOutcomes,
             elapsed \in ElapsedMs :
                /\ counts.renders < MaxRenders
                /\ HostRenderWith(isReady, rectOk, outcome, elapsed)
       \/ \E h \in rafPending, elapsed \in ElapsedMs : Frame(h, elapsed)
       \/ \E in \in SplatInputs : Calls(counts) < MaxCalls /\ CreateSplat(in)
       \/ TestSplat
       \/ Unmount
    /\ UNCHANGED <<blendVars, utilVars>>

SpecInit == Init /\ [][NextInit]_vars

\* C19: the engine never partially initializes: the context reference is set
\* and fields are allocated only together and only with valid programs, and
\* no createSplat call fails on a partially populated engine.
C19_NeverPartiallyInitialized ==
    /\ glRef <=> fbosRef # EmptyFbos
    /\ glRef => programsRef /\ programsValid
    /\ thrown = ""

\* C20: an initialization in which a shader fails to compile or a program
\* fails to link allocates no field and starts no animation loop.
C20_ShaderFailureIsFatal ==
    [][(programsValid /\ ~programsValid') =>
          /\ textures' = textures
          /\ fbosRef' = fbosRef
          /\ rafPending' \subseteq rafPending
          /\ testSplatTimers' = testSplatTimers
          /\ renderCount' = renderCount]_vars

\* ---------------------------------------------------------------------------
\* a device without WebGL

MaxLateCalls == 2      \* calls made to a hook that failed to initialize

\* the hook on a device where getContext returns null for webgl2, webgl and
\* experimental-webgl
NextNoContext ==
    /\ \/ \E isReady \in BOOLEAN, rectOk \in BOOLEAN, elapsed \in ElapsedMs :
             /\ counts.renders < MaxRenders
             /\ HostRenderWith(isReady, rectOk, "noContext", elapsed)
       \/ \E in \in SplatInputs : Calls(counts) < MaxLateCalls /\ CreateSplat(in)
       \/ \E req \in HookRequests : Calls(counts) < MaxLateCalls /\ HookSetEmotion(req)
       \/ \E size \in Sizes : Calls(counts) < MaxLateCalls /\ Layout(size)
       \/ Unmount
    /\ UNCHANGED <<blendVars, utilVars>>

SpecNoContext == Init /\ [][NextNoContext]_vars

\* the step is a call of the hook's setEmotion
IsSetEmotion == counts'.emotions = counts.emotions + 1

\* C21: when no WebGL context can be obtained, initialization fails: no
\* program is built, no field is allocated, no frame is ever scheduled or
\* run, and every later createSplat and setEmotion call leaves the engine's
\* state as it was.
C21_NoContextIsFatal ==
    /\ [](/\ ~glRef
          /\ ~programsRef
          /\ fbosRef = EmptyFbos
          /\ textures = <<>>
          /\ clock = 0
          /\ rafPending = {}
          /\ testSplatTimers = 0
          /\ renderCount = 0
          /\ emotionTransitionerRef = <<>>
          /\ thrown = "")
    /\ [][(counts'.splats = counts.splats + 1 \/ IsSetEmotion) =>
            UNCHANGED <<glRef, programsRef, fbosRef, textures, clock, configRef, canvas,
                        emotionTransitionerRef, rafPending, animationFrameRef,
                        testSplatTimers, displayKeywords, effectLive>>]_vars

\* the init effect has run into the missing context and a splat was asked for
\* afterwards
C21_Witness ==
    /\ effectLive
    /\ canvas = client
    /\ ~glRef
    /\ lastCall.op = "createSplat"
    /\ passes = <<>>

----------------------------------------------------------------------------
(* utils/fluidHelpers.js: getWebGLContext and getSupportedFormat, on every *)
(* host: which contexts exist, whether OES_texture_half_float exists, and  *)
(* which texture formats a framebuffer accepts.                            *)

InternalFormats == {"R16F", "RG16F", "RGBA16F", "RGBA"}

\* the hosts: supported are the internal formats for which
\* checkFramebufferStatus is FRAMEBUFFER_COMPLETE
Hosts ==
    [ context : {"webgl2", "webgl", "none"}, halfFloat : BOOLEAN,
      supported : SUBSET InternalFormats ]

supportRenderTextureFormat(host, internalFormat) == internalFormat \in host.supported

\* a selection that gives up at the first rejected format
getSupportedFormatStrict(host, internalFormat, format) ==
    IF ~supportRenderTextureFormat(host, internalFormat)
    THEN <<>>
    ELSE <<[internalFormat |-> internalFormat, format |-> format]>>

\* getSupportedFormat(gl, internalFormat, format, type): <<>> for null
RECURSIVE getSupportedFormat(_, _, _)
getSupportedFormat(host, internalFormat, format) ==
    IF ~supportRenderTextureFormat(host, internalFormat)
    THEN CASE internalFormat = "R16F"  -> getSupportedFormat(host, "RG16F", "RG")
           [] internalFormat = "RG16F" -> getSupportedFormat(host, "RGBA16F", "RGBA")
           [] OTHER                    -> <<>>
    ELSE <<[internalFormat |-> internalFormat, format |-> format]>>

\* what getWebGLContext(canvas) returns or throws on the host
ContextOf(host) ==
    CASE host.context = "none" -> [thrown |-> "WebGL not supported"]
      [] host.context = "webgl" /\ ~host.halfFloat -> TypeError
      [] host.context = "webgl2" ->
            [ formatRGBA |-> getSupportedFormat(host, "RGBA16F", "RGBA"),
              formatRG   |-> getSupportedFormat(host, "RG16F", "RG"),
              formatR    |-> getSupportedFormat(host, "R16F", "RED") ]
      [] OTHER ->
            [ formatRGBA |-> getSupportedFormat(host, "RGBA", "RGBA"),
              formatRG   |-> getSupportedFormat(host, "RGBA", "RGBA"),
              formatR    |-> getSupportedFormat(host, "RGBA", "RGBA") ]

InitFormats ==
    /\ InitHook
    /\ InitBlendIdle
    /\ utilIn \in Hosts
    /\ utilOut = <<>>
    /\ material = <<>>

GetWebGLContext ==
    /\ utilOut = <<>>
    /\ utilOut' = <<ContextOf(utilIn)>>
    /\ UNCHANGED <<utilIn, material, blendVars, hookVars>>

NextFormats == GetWebGLContext

SpecFormats == InitFormats /\ [][NextFormats]_vars

\* the fallback chain and the pixel format that goes with each entry
Chain == <<"R16F", "RG16F", "RGBA16F">>
ChainFormat == <<"RED", "RG", "RGBA">>

\* the first format of the chain, from position k on, that the host renders to
FirstSupported(host, k) ==
    LET ok == { i \in k..3 : Chain[i] \in host.supported }
    IN  IF ok = {}
        THEN <<>>
        ELSE LET i == CHOOSE i \in ok : \A j \in ok : i <= j
             IN  <<[internalFormat |-> Chain[i], format |-> ChainFormat[i]]>>

\* C22: on a WebGL2 host the formats chosen for the 1-, 2- and 4-channel
\* fields are the first renderable format of the chain R16F, RG16F, RGBA16F
\* from the requested one onward, and no format only when every remaining
\* one is rejected.  On a WebGL1 host every field requests RGBA, the end of
\* its chain, and gets it or nothing.
C22_FallbackChain ==
    /\ (utilOut # <<>> /\ utilIn.context = "webgl2") =>
          /\ utilOut[1].formatR = FirstSupported(utilIn, 1)
          /\ utilOut[1].formatRG = FirstSupported(utilIn, 2)
          /\ utilOut[1].formatRGBA = FirstSupported(utilIn, 3)
    /\ (utilOut # <<>> /\ utilIn.context = "webgl" /\ utilIn.halfFloat) =>
          \A f \in {"formatR", "formatRG", "formatRGBA"} :
              utilOut[1][f] = IF "RGBA" \in utilIn.supported
                              THEN <<[internalFormat |-> "RGBA", format |-> "RGBA"]>>
                              ELSE <<>>

\* R16F is rejected, RG16F accepted: the 1-channel field gets RG16F
C22_Witness ==
    /\ utilOut # <<>>
    /\ utilIn.context = "webgl2"
    /\ utilIn.supported = {"RG16F", "RGBA16F"}
    /\ utilOut[1].formatR = <<[internalFormat |-> "RG16F", format |-> "RG"]>>

----------------------------------------------------------------------------
(* utils/fluidPrograms.js: the display Material and its program cache.     *)
(* Numbers that leave the 32-bit range are kept as <<high, low>> with      *)
(* value high * 65536 + low and 0 <= low < 65536.                          *)

\* the keywords of updateKeywords as char codes
KwSHADING == <<83, 72, 65, 68, 73, 78, 71>>
KwBLOOM   == <<66, 76, 79, 79, 77>>
KwSUNRAYS == <<83, 85, 78, 82, 65, 89, 83>>
Keywords  == {KwSHADING, KwBLOOM, KwSUNRAYS}

\* a hash that only looks at the length
hashCodeByLength(str) == <<0, Len(str)>>

\* hash = (hash << 5) - hash + s.charCodeAt(i); hash |= 0, on 16-bit halves
RECURSIVE HashLoop(_, _, _)
HashLoop(str, i, hash) ==
    IF i > Len(str)
    THEN hash
    ELSE LET low  == 31 * hash[2] + str[i]
             high == 31 * hash[1] + (low \div 65536)
         IN  HashLoop(str, i + 1, <<high % 65536, low % 65536>>)

\* hashCode(s): the signed 32-bit result
hashCode(str) ==
    IF Len(str) = 0
    THEN <<0, 0>>
    ELSE LET u == HashLoop(str, 1, <<0, 0>>)
         IN  <<IF u[1] >= 32768 THEN u[1] - 65536 ELSE u[1], u[2]>>

\* a + b on numbers
AddNumber(a, b) ==
    LET low == a[2] + b[2]
    IN  <<a[1] + b[1] + (low \div 65536), low % 65536>>

\* let hash = 0; for (...) hash += hashCode(keywords[i])
RECURSIVE KeywordsHash(_, _)
KeywordsHash(keywords, i) ==
    IF i > Len(keywords)
    THEN <<0, 0>>
    ELSE AddNumber(hashCode(keywords[i]), KeywordsHash(keywords, i + 1))

\* new Material(gl, vertexShader, fragmentShaderSource); compiled counts the
\* compileShader calls made by setKeywords
NewMaterial == [programs |-> <<>>, activeProgram |-> 0, compiled |-> 0]

\* this.programs[hash]: 0 for undefined
ProgramAt(programs, hash) ==
    LET hit == { i \in 1..Len(programs) : programs[i].hash = hash }
    IN  IF hit = {} THEN 0 ELSE programs[CHOOSE i \in hit : TRUE].program

\* Material.setKeywords(keywords); a program is [program id, the keywords it
\* was compiled with]
setKeywords(m, keywords) ==
    LET hash     == KeywordsHash(keywords, 1)
        cached   == ProgramAt(m.programs, hash)
        program  == IF cached = 0 THEN m.compiled + 1 ELSE cached
        programs == IF cached = 0
                    THEN Append(m.programs,
                                [hash |-> hash, program |-> program, keywords |-> keywords])
                    ELSE m.programs
    IN  [ programs      |-> programs,
          activeProgram |-> program,
          compiled      |-> IF cached = 0 THEN m.compiled + 1 ELSE m.compiled ]

MaxKeywordCalls == 3   \* setKeywords calls on one Material

Range(seq) == { seq[i] : i \in 1..Len(seq) }

\* every list of distinct keywords, in any order
KeywordLists ==
    { l \in UNION { [1..n -> Keywords] : n \in 0..3 } : Cardinality(Range(l)) = Len(l) }

InitMaterial ==
    /\ InitHook
    /\ InitBlendIdle
    /\ utilIn = <<>>
    /\ utilOut = <<>>
    /\ material = <<NewMaterial>>

SetKeywords(keywords) ==
    /\ Len(utilOut) < MaxKeywordCalls
    /\ material' = <<setKeywords(material[1], keywords)>>
    /\ utilIn' = keywords
    /\ utilOut' = Append(utilOut, material'[1].activeProgram)
    /\ UNCHANGED <<blendVars, hookVars>>

NextMaterial == \E keywords \in KeywordLists : SetKeywords(keywords)

SpecMaterial == InitMaterial /\ [][NextMaterial]_vars

\* the keyword sets for which material m holds a program
CachedSets(m) == { Range(m.programs[i].keywords) : i \in 1..Len(m.programs) }

\* C23: each distinct set of enabled keywords is compiled at most once: a
\* setKeywords call compiles exactly when no program for that set is cached,
\* otherwise it activates the program cached for that same set, and two
\* different keyword sets never share a cache entry.
C23_CompiledOncePerSet ==
    /\ [](\A i, j \in 1..Len(material[1].programs) :
            LET p == material[1].programs[i]
                q == material[1].programs[j]
            IN  (Range(p.keywords) = Range(q.keywords) \/ p.hash = q.hash
                   \/ p.program = q.program) => i = j)
    /\ [](material[1].compiled = Len(material[1].programs))
    /\ [][LET m   == material[1]
              new == material'[1]
              set == Range(utilIn')
          IN  /\ new.compiled = IF set \in CachedSets(m) THEN m.compiled ELSE m.compiled + 1
              /\ \E i \in 1..Len(new.programs) :
                    /\ new.programs[i].program = new.activeProgram
                    /\ Range(new.programs[i].keywords) = set
              /\ \A i \in 1..Len(m.programs) : new.programs[i] = m.programs[i]]_vars

\* BLOOM and SHADING were set in both orders, with SUNRAYS alone in between:
\* two programs compiled, the first one active again
C23_Witness ==
    /\ utilOut = <<1, 2, 1>>
    /\ utilIn = <<KwBLOOM, KwSHADING>>
    /\ material[1].programs[1].keywords = <<KwSHADING, KwBLOOM>>
    /\ material[1].programs[2].keywords = <<KwSUNRAYS>>
    /\ material[1].compiled = 2

----------------------------------------------------------------------------
(* teardown *)

\* C24: after teardown (the hook's cleanup at unmount) no texture or
\* framebuffer that the engine allocated remains allocated.
C24_BuffersReleasedAtTeardown == mounted = "torn" => textures = <<>>

\* C25: once the init effect's cleanup has cancelled the scheduled callback,
\* no animation-frame callback is pending and none runs, until an
\* initialization starts a new loop: frames run only for a live effect of a
\* mounted component.
C25_NoFrameAfterCancel ==
    /\ [](~effectLive => rafPending = {})
    /\ [](rafPending \subseteq {animationFrameRef})
    /\ [][IsFrame => (effectLive /\ mounted = "mounted")]_vars
    /\ [][(effectLive /\ ~effectLive') =>
             (renderCount' = renderCount /\ rafPending' = {})]_vars

\* the loop was cancelled by the unmount after a frame had run and rescheduled
C25_Witness ==
    /\ mounted = "torn"
    /\ counts.frames = 1
    /\ handler = "animate"
    /\ animationFrameRef # 0
    /\ rafPending = {}

----------------------------------------------------------------------------
(* the order of a frame *)

\* the step runs animate(): a requestAnimationFrame callback or the call
\* that ends an initialization
IsAnimate == renderCount' = renderCount + 1

\* the step's passes carry the uniforms that configuration cfg gives them
StepUses(log, cfg) ==
    \A i \in 1..Len(log) :
        /\ log[i].prog = "vorticity" => log[i].arg[2] = cfg.CURL
        /\ log[i].prog = "clear" => log[i].arg = <<cfg.PRESSURE>>
        /\ (log[i].prog = "advection" /\ log[i].target.ref = WR("velocity"))
              => log[i].arg[2] = cfg.VELOCITY_DISSIPATION
        /\ (log[i].prog = "advection" /\ log[i].target.ref = WR("dye"))
              => log[i].arg[2] = cfg.DENSITY_DISSIPATION

\* render draws with the effects that configuration cfg enables
RenderUses(log, cfg) ==
    /\ cfg.SUNRAYS <=> HasPass(log, "sunrays")
    /\ cfg.BLOOM <=> HasPass(log, "bloomFinal")
    /\ log[Len(log)].prog = "display"
    /\ cfg.SUNRAYS <=> \E r \in log[Len(log)].reads : r.ref = FB("sunrays")

\* C26: a frame resynchronizes the canvas size, advances the emotion blend
\* and merges it into the live configuration, steps, renders and schedules
\* the next frame, so that the step's and the render's passes use the
\* configuration blended in that same frame.
C26_FrameOrder ==
    [][IsAnimate =>
         /\ emotionTransitionerRef' # <<>>
         /\ IsFrame =>
              /\ canvas' = IF resized' THEN client ELSE canvas
              /\ emotionTransitionerRef # <<>>
              /\ emotionTransitionerRef' = <<TrUpdate(emotionTransitionerRef[1])>>
              /\ configRef' = Merge(configRef, emotionTransitionerRef'[1].currentConfig)
         /\ FrameOrdered(passes')
         /\ StepUses(passes', configRef')
         /\ RenderUses(passes', configRef')
         /\ displayKeywords' = DisplayKeywords(configRef')
         /\ animationFrameRef' \in rafPending'
         /\ animationFrameRef' \notin rafPending]_vars

\* a frame in the middle of the transition to sadness: the frame's blend moved
\* CURL and the dissipations, and its step ran with the moved values
C26_Witness ==
    /\ handler = "animate"
    /\ counts.emotions = 1
    /\ emotionTransitionerRef[1].transitionProgress = 2
    /\ configRef.CURL < defaultConfig.CURL
    /\ \E i \in 1..Len(passes) :
          passes[i].prog = "vorticity" /\ passes[i].arg[2] = configRef.CURL

----------------------------------------------------------------------------
(* the bloom mip pyramid, for configurations and canvases of every shape *)

BloomInputs ==
    [ BLOOM_ITERATIONS : {0, 1, 2, 3, 8}, BLOOM_RESOLUTION : {1, 2, 3, 4, 5, 8, 16, 256},
      size : Sizes \cup {Size(640, 640)} ]

InitBloom ==
    /\ InitHook
    /\ InitBlendIdle
    /\ utilIn \in BloomInputs
    /\ utilOut = <<>>
    /\ material = <<>>

\* initFramebuffers() on a fresh context, then applyBloom(dye.read, bloom)
AllocateAndBloom ==
    /\ utilOut = <<>>
    /\ LET cfg == Merge(defaultConfig,
                        [ BLOOM_ITERATIONS |-> utilIn.BLOOM_ITERATIONS,
                          BLOOM_RESOLUTION |-> utilIn.BLOOM_RESOLUTION ])
       IN  \E g \in { initFramebuffers([fbos |-> EmptyFbos, tex |-> <<>>, clock |-> 0,
                                        log |-> <<>>], cfg, utilIn.size) } :
           \E b \in { applyBloom(g, RD("dye"), FB("bloom")) } :
               utilOut' = << [ bloom  |-> g.tex[g.fbos.bloom],
                               levels |-> [ k \in 1..Len(g.fbos.bloomFramebuffers) |->
                                              g.tex[g.fbos.bloomFramebuffers[k]] ],
                               passes |-> b.log ] >>
    /\ UNCHANGED <<utilIn, material, blendVars, hookVars>>

NextBloom == AllocateAndBloom

SpecBloom == InitBloom /\ [][NextBloom]_vars

\* x >> k for a non-negative integer x and a shift below 32
ShiftRight(x, k) == x \div (2 ^ k)

\* C27: the pyramid has at most BLOOM_ITERATIONS levels, level i (from 0) is
\* (bloomWidth >> (i+1)) by (bloomHeight >> (i+1)), allocation stops at the
\* first level that would be narrower or lower than 2, so every level is at
\* least 2 by 2, and the bloom passes run only when there are two levels or
\* more.
C27_BloomPyramid ==
    utilOut # <<>> =>
        LET out == utilOut[1]
            n   == Len(out.levels)
        IN  /\ n <= utilIn.BLOOM_ITERATIONS
            /\ \A i \in 0..(n - 1) :
                  /\ out.levels[i + 1].width = ShiftRight(out.bloom.width, i + 1)
                  /\ out.levels[i + 1].height = ShiftRight(out.bloom.height, i + 1)
                  /\ out.levels[i + 1].width >= 2
                  /\ out.levels[i + 1].height >= 2
            /\ n < utilIn.BLOOM_ITERATIONS =>
                  \/ ShiftRight(out.bloom.width, n + 1) < 2
                  \/ ShiftRight(out.bloom.height, n + 1) < 2
            /\ out.passes # <<>> <=> n >= 2
            /\ n >= 2 => /\ out.passes[1].prog = "bloomPrefilter"
                         /\ Len(out.passes) = 2 * n + 1

\* a 5 by 7 bloom buffer with 8 iterations asked for: one level, 2 by 3, and
\* no bloom pass
C27_Witness ==
    /\ utilOut # <<>>
    /\ utilIn.BLOOM_ITERATIONS = 8
    /\ utilOut[1].bloom.width = 5
    /\ Len(utilOut[1].levels) = 1
    /\ utilOut[1].levels[1].width = 2
    /\ utilOut[1].passes = <<>>

----------------------------------------------------------------------------
(* The dye advection pass.  The advection shader (utils/fluidShaders) is   *)
(* not part of the sources; it is modelled from the specification: a       *)
(* semi-Lagrangian step (each cell takes the value found upstream, at      *)
(* x - dt * velocity(x)) times a multiplicative decay factor.  The field   *)
(* is one row of cells, displacements are whole cells, and sampling        *)
(* outside the row clamps to the edge cell, as the textures do.            *)

Cells == 1..3
DyeValues == {0, 1000}
Displacements == {-1, 0, 1}                  \* dt * velocity, in cells
DecayFactors == {Frac(1, 1), Frac(1, 2)}     \* the decay factor of one step

MaxDyeSteps == 2       \* frames advected

ClampToEdge(x) == IF x < 1 THEN 1 ELSE IF x > 3 THEN 3 ELSE x

\* an advection whose dissipation amplifies
advectionAmplifies(source, displacement, decay) ==
    [ x \in Cells |-> 2 * source[ClampToEdge(x - displacement[x])] ]

\* the advection program run on the dye field
advection(source, displacement, decay) ==
    [ x \in Cells |-> MulDiv(source[ClampToEdge(x - displacement[x])], decay.num, decay.den) ]

InitDye ==
    /\ InitHook
    /\ InitBlendIdle
    /\ utilIn = <<>>
    /\ utilOut \in { <<dye>> : dye \in [Cells -> DyeValues] }
    /\ material = <<>>

\* the dye advection of one frame, no splat in between: utilOut holds the
\* dye field after each frame
AdvectDye(displacement, decay) ==
    /\ Len(utilOut) <= MaxDyeSteps
    /\ utilIn' = [source |-> utilOut[Len(utilOut)], displacement |-> displacement,
                  decay |-> decay]
    /\ utilOut' = Append(utilOut, advection(utilOut[Len(utilOut)], displacement, decay))
    /\ UNCHANGED <<material, blendVars, hookVars>>

NextDye ==
    \E displacement \in [Cells -> Displacements], decay \in DecayFactors :
        AdvectDye(displacement, decay)

SpecDye == InitDye /\ [][NextDye]_vars

Total(field) == field[1] + field[2] + field[3]
Peak(field) == Max({ field[x] : x \in Cells })

-----------------------------------------------------------------------------
(* The gesture effect of App: one run per hand-tracking frame, after the    *)
(* synthesizer was started and the calibration completed.  Positions and    *)
(* pinch strengths are thousandths, times are milliseconds.  A frame holds  *)
(* the time since the previous run and the hands that processGestures       *)
(* reports (at most two, one per physical hand), each with its pinch        *)
(* strength, its position and its gesture flags.  utilIn holds the frame of *)
(* the last run; utilOut holds the state of App and of the synthesizer that *)
(* the effect reads and writes, with the createSplat calls of the last run. *)

Handedness == {"Left", "Right"}
PinchValues == {700, 701}
HandXs == {200, 700}
INSTRUMENTS == 1..16      \* the instrument list, by position

VictoryHold == 2000
OpenHold == 5000

MaxHandFrames == 3       \* hand-tracking frames handled
MaxStopFrames == 4       \* hand-tracking frames handled, stop gesture
MaxTicks == 1            \* callbacks of the rhythmic loop

\* processGestures: isPinched is pinch > 0.7
isPinched(pinch) == pinch > 700

NoFlags ==
    [isThumbsUp |-> FALSE, isThumbsDown |-> FALSE, isOpenPalm |-> FALSE,
     isVictorySign |-> FALSE]

Hand(pinch, x, flags) ==
    [pinch |-> pinch, normalizedX |-> x, normalizedY |-> 500,
     isThumbsUp |-> flags.isThumbsUp, isThumbsDown |-> flags.isThumbsDown,
     isOpenPalm |-> flags.isOpenPalm, isVictorySign |-> flags.isVictorySign]

\* processGestures: the hands of the frame, in the order they are handled
HandsOf(frame) ==
    (IF frame.hands["Left"] = <<>> THEN <<>> ELSE <<"Left">>)
        \o (IF frame.hands["Right"] = <<>> THEN <<>> ELSE <<"Right">>)

bothHands(frame, flag) ==
    /\ Len(HandsOf(frame)) = 2
    /\ \A h \in Handedness : frame.hands[h][1][flag]

\* the splat of one pinched hand: position flipped, velocity negated
SplatOf(handType, hand, prevPos) ==
    [hand |-> handType,
     x |-> 1000 - hand.normalizedX,
     y |-> 1000 - hand.normalizedY,
     dx |-> 0 - (hand.normalizedX - prevPos.x) * 100,
     dy |-> 0 - (hand.normalizedY - prevPos.y) * 100]

\* the body of params.hands.forEach for one hand: the createSplat calls
\* made; canPlay and isStopped are the values of the render the effect
\* belongs to
handSplats(app, frame, handType) ==
    LET hs == frame.hands[handType]
        prevPos == IF app.prev[handType] = <<>>
                   THEN [x |-> hs[1].normalizedX, y |-> hs[1].normalizedY]
                   ELSE app.prev[handType][1]
    IN  IF hs = <<>> \/ ~app.canPlay \/ app.isStopped \/ ~isPinched(hs[1].pinch)
        THEN <<>>
        ELSE <<SplatOf(handType, hs[1], prevPos)>>

\* prevHandPositionsRef after the body ran for one hand
handPrev(app, frame, handType) ==
    LET hs == frame.hands[handType]
    IN  IF hs = <<>> \/ ~app.canPlay \/ app.isStopped
        THEN app.prev[handType]
        ELSE <<[x |-> hs[1].normalizedX, y |-> hs[1].normalizedY]>>

\* a cycle that leaves the list at its ends
cycleInstrumentNoWrap(prev, direction) ==
    IF direction = "up" THEN prev + 1 ELSE prev - 1

\* useSynthesizer.cycleInstrument, on the 0-based index of one hand
cycleInstrument(prev, direction) ==
    IF direction = "up"
    THEN (prev + 1) % Cardinality(INSTRUMENTS)
    ELSE (prev - 1 + Cardinality(INSTRUMENTS)) % Cardinality(INSTRUMENTS)

\* the thumbs up / thumbs down part of the body, for one hand
handInstrument(app, frame, handType) ==
    LET hs == frame.hands[handType]
        up == hs # <<>> /\ hs[1].isThumbsUp /\ ~app.thumbsUpTime[handType]
        down == hs # <<>> /\ hs[1].isThumbsDown /\ ~app.thumbsDownTime[handType]
        afterUp == IF up THEN cycleInstrument(app.instrumentIndex[handType], "up")
                   ELSE app.instrumentIndex[handType]
    IN  IF down THEN cycleInstrument(afterUp, "down") ELSE afterUp

\* leftThumbsUpTime / rightThumbsUpTime (flag = isThumbsUp) and the thumbs
\* down times after the body ran for one hand: set or not set
handThumbsTime(held, frame, handType, flag) ==
    LET hs == frame.hands[handType]
    IN  IF hs = <<>> THEN held[handType] ELSE hs[1][flag]

\* does the body reach updateParams for this hand, with an updateParams
\* that is not a no-op: both read isStopped of the render of the effect
handUpdatesParams(app, frame, handType) ==
    LET hs == frame.hands[handType]
    IN  /\ hs # <<>>
        /\ app.canPlay
        /\ ~app.isStopped
        /\ isPinched(hs[1].pinch)

\* does the body reach stopHand for this hand
handStops(app, frame, handType) ==
    LET hs == frame.hands[handType]
    IN  /\ hs # <<>>
        /\ app.canPlay
        /\ ~app.isStopped
        /\ ~isPinched(hs[1].pinch)
        /\ app.wasPlaying[handType]

\* useSynthesizer.stop: both hands inactive
stop(active) == [h \in Handedness |-> FALSE]

InitGesture ==
    /\ InitHook
    /\ InitBlendIdle
    /\ utilIn = <<>>
    /\ utilOut = <<[splats |-> <<>>, prev |-> [h \in Handedness |-> <<>>], frames |-> 0,
                    now |-> 0, canPlay |-> FALSE, isStopped |-> FALSE,
                    victoryStart |-> <<>>, openStart |-> <<>>,
                    thumbsUpTime |-> [h \in Handedness |-> FALSE],
                    thumbsDownTime |-> [h \in Handedness |-> FALSE],
                    instrumentIndex |-> [h \in Handedness |-> 0],
                    wasPlaying |-> [h \in Handedness |-> FALSE],
                    active |-> [h \in Handedness |-> FALSE],
                    ticks |-> 0, triggered |-> {}]>>
    /\ material = <<>>

\* the gesture effect run on one hand-tracking frame
HandFrame(frame) ==
    LET app == utilOut[1]
        now == app.now + frame.dt
        none == HandsOf(frame) = <<>>
        victory == ~none /\ bothHands(frame, "isVictorySign")
        enables == /\ victory
                   /\ app.victoryStart # <<>>
                   /\ now - app.victoryStart[1] >= VictoryHold
        open == ~none /\ bothHands(frame, "isOpenPalm")
        stops == /\ open
                 /\ app.openStart # <<>>
                 /\ now - app.openStart[1] >= OpenHold
                 /\ app.canPlay
        afterStop == IF stops THEN stop(app.active) ELSE app.active
        loop(h) == ~none /\ handUpdatesParams(app, frame, h)
    IN  /\ utilIn' = <<frame>>
        /\ utilOut' = <<[
             splats |-> IF none THEN <<>>
                        ELSE handSplats(app, frame, "Left") \o handSplats(app, frame, "Right"),
             prev |-> IF none THEN app.prev
                      ELSE [h \in Handedness |-> handPrev(app, frame, h)],
             frames |-> app.frames + 1,
             now |-> now,
             canPlay |-> IF stops THEN FALSE
                         ELSE IF enables /\ ~app.canPlay THEN TRUE
                         ELSE app.canPlay,
             isStopped |-> IF stops THEN TRUE
                           ELSE IF enables /\ ~app.canPlay THEN FALSE
                           ELSE app.isStopped,
             victoryStart |-> IF victory /\ app.victoryStart = <<>> THEN <<now>>
                              ELSE IF victory /\ ~enables THEN app.victoryStart
                              ELSE <<>>,
             openStart |-> IF open /\ app.openStart = <<>> THEN <<now>>
                           ELSE IF open /\ ~stops THEN app.openStart
                           ELSE <<>>,
             thumbsUpTime |-> IF none THEN app.thumbsUpTime
                 ELSE [h \in Handedness |-> handThumbsTime(app.thumbsUpTime, frame, h, "isThumbsUp")],
             thumbsDownTime |-> IF none THEN app.thumbsDownTime
                 ELSE [h \in Handedness |-> handThumbsTime(app.thumbsDownTime, frame, h, "isThumbsDown")],
             instrumentIndex |-> IF none THEN app.instrumentIndex
                 ELSE [h \in Handedness |-> handInstrument(app, frame, h)],
             wasPlaying |-> [h \in Handedness |->
                 IF loop(h) THEN TRUE
                 ELSE IF ~none /\ handStops(app, frame, h) THEN FALSE
                 ELSE app.wasPlaying[h]],
             active |-> [h \in Handedness |->
                 IF loop(h) THEN TRUE
                 ELSE IF ~none /\ handStops(app, frame, h) THEN FALSE
                 ELSE afterStop[h]],
             ticks |-> app.ticks,
             triggered |-> app.triggered]>>
        /\ UNCHANGED <<material, blendVars, hookVars>>

\* one callback of the rhythmic loop: the hands whose note is triggered.
\* The callback was created by start(), when isStopped was false, and
\* reads that value.
LoopTick ==
    /\ utilOut[1].frames > 0
    /\ utilOut' = <<[utilOut[1] EXCEPT !.ticks = @ + 1,
                                       !.triggered = { h \in Handedness : utilOut[1].active[h] }]>>
    /\ UNCHANGED <<utilIn, material, blendVars, hookVars>>

PlainHands ==
    {<<>>} \cup { <<Hand(p, x, NoFlags)>> : p \in PinchValues, x \in HandXs }
                \cup { <<Hand(700, 200, [NoFlags EXCEPT !.isVictorySign = TRUE])>> }

HandFrames == [dt : {2000}, hands : [Handedness -> PlainHands]]

NextGesture ==
    /\ utilOut[1].frames < MaxHandFrames
    /\ \E frame \in HandFrames : HandFrame(frame)

SpecGesture == InitGesture /\ [][NextGesture]_vars

SplatsFor(handType) ==
    { k \in 1..Len(utilOut[1].splats) : utilOut[1].splats[k].hand = handType }

\* C29: in every hand-tracking frame a splat is injected for a detected hand
\* if and only if that hand is pinched in that frame, at the hand's position
\* with the hand's velocity; a hand that is not pinched never causes a splat.
C29_SplatIffPinched ==
    utilIn # <<>> =>
        \A h \in Handedness :
            utilIn[1].hands[h] # <<>> =>
                /\ (SplatsFor(h) # {}) <=> isPinched(utilIn[1].hands[h][1].pinch)
                /\ \A k \in SplatsFor(h) :
                       utilOut[1].splats[k].x = 1000 - utilIn[1].hands[h][1].normalizedX

------------------------------------------------------------------------\* Instrument switching: the frames show thumbs up, thumbs down or neither
ThumbHands ==
    {<<>>, <<Hand(0, 200, NoFlags)>>,
     <<Hand(0, 200, [NoFlags EXCEPT !.isThumbsUp = TRUE])>>,
     <<Hand(0, 200, [NoFlags EXCEPT !.isThumbsDown = TRUE])>>}

ThumbFrames == [dt : {2000}, hands : [Handedness -> ThumbHands]]

NextThumbs ==
    /\ utilOut[1].frames < MaxHandFrames
    /\ \E frame \in ThumbFrames : HandFrame(frame)

SpecThumbs == InitGesture /\ [][NextThumbs]_vars

\* the hand shows the gesture in this frame
Shows(frame, h, flag) == frame # <<>> /\ frame[1].hands[h] # <<>> /\ frame[1].hands[h][1][flag]

\* the hand is seen in this frame without the gesture, or there was no frame yet
Released(frame, h, flag) ==
    frame = <<>> \/ (frame[1].hands[h] # <<>> /\ ~frame[1].hands[h][1][flag])

\* C31: a hand that makes a thumbs up (thumbs down) after showing none has
\* its instrument cycled once, to the next (previous) instrument with
\* wrap-around; while it keeps holding the gesture over consecutive frames
\* the instrument is not cycled again; a hand that shows neither gesture, or
\* is not seen, keeps its instrument whatever the other hand does.
C31_ThumbsCycleOnce ==
    [][ \A h \in Handedness :
          LET index == utilOut[1].instrumentIndex[h]
              after == utilOut'[1].instrumentIndex[h]
          IN  /\ (Released(utilIn, h, "isThumbsUp") /\ Shows(utilIn', h, "isThumbsUp"))
                  => after = (IF index = 15 THEN 0 ELSE index + 1)
              /\ (Released(utilIn, h, "isThumbsDown") /\ Shows(utilIn', h, "isThumbsDown"))
                  => after = (IF index = 0 THEN 15 ELSE index - 1)
              /\ (Shows(utilIn, h, "isThumbsUp") /\ Shows(utilIn', h, "isThumbsUp"))
                  => after = index
              /\ (Shows(utilIn, h, "isThumbsDown") /\ Shows(utilIn', h, "isThumbsDown"))
                  => after = index
              /\ (~Shows(utilIn', h, "isThumbsUp") /\ ~Shows(utilIn', h, "isThumbsDown"))
                  => after = index
      ]_vars

\* the left hand held thumbs down over two frames from the first instrument,
\* the right hand made a thumbs up in the second
C31_Witness ==
    /\ utilOut[1].frames = 2
    /\ Shows(utilIn, "Left", "isThumbsDown")
    /\ utilOut[1].thumbsDownTime["Left"]
    /\ utilOut[1].instrumentIndex = [h \in Handedness |-> IF h = "Left" THEN 15 ELSE 1]

\* The stop gesture: both hands are seen, each neutral, pinched, showing
\* the victory sign, or open with or without the thumb near the index tip
StopHands ==
    { <<Hand(p, 200, NoFlags)>> : p \in PinchValues }
        \cup { <<Hand(700, 200, [NoFlags EXCEPT !.isVictorySign = TRUE])>> }
        \cup { <<Hand(p, 200, [NoFlags EXCEPT !.isOpenPalm = TRUE])>> : p \in PinchValues }

StopFrames == [dt : {5000}, hands : [Handedness -> StopHands]]

NextStop ==
    \/ /\ utilOut[1].frames < MaxStopFrames
       /\ \E frame \in StopFrames : HandFrame(frame)
    \/ /\ utilOut[1].ticks < MaxTicks
       /\ LoopTick

SpecStop == InitGesture /\ [][NextStop]_vars

\* C32: while the synthesizer is stopped both hands are inactive and a
\* callback of the rhythmic loop triggers no note for either hand.
C32_StoppedIsSilent ==
    /\ [](utilOut[1].isStopped => \A h \in Handedness : ~utilOut[1].active[h])
    /\ [][(utilOut[1].isStopped /\ utilOut'[1].ticks > utilOut[1].ticks)
              => utilOut'[1].triggered = {}]_vars

-----
(* mapHandToNote.  A hand is the sequence of the y coordinates of its      *)
(* landmarks, in thousandths of the frame height (0 = top, 1000 = bottom;   *)
(* a hand partly outside the frame has coordinates outside 0..1000).        *)

PENTATONIC_SCALE ==
    <<"C3", "D3", "E3", "G3", "A3", "C4", "D4", "E4", "G4", "A4", "C5", "D5", "E5">>

LandmarkYs == { 150 * k - 400 : k \in 0..12 }       \* -400 .. 1400
Landmarks == {<<>>} \cup { <<y>> : y \in LandmarkYs }
                    \cup { <<y1, y2>> : y1 \in LandmarkYs, y2 \in LandmarkYs }

SumY(landmarks) == IF Len(landmarks) = 1 THEN landmarks[1] ELSE landmarks[1] + landmarks[2]

\* Math.floor(normalizedY * PENTATONIC_SCALE.length), normalizedY = 1 - center.y
\* and center.y = sum / landmarks.length
noteIndex(landmarks) ==
    ((Len(landmarks) * 1000 - SumY(landmarks)) * Len(PENTATONIC_SCALE))
        \div (Len(landmarks) * 1000)

\* a lookup without the clamp: an index outside the array reads undefined
mapHandToNoteUnclamped(landmarks) ==
    IF landmarks = <<>>
    THEN "null"
    ELSE IF noteIndex(landmarks) + 1 \in DOMAIN PENTATONIC_SCALE
         THEN PENTATONIC_SCALE[noteIndex(landmarks) + 1]
         ELSE "undefined"

mapHandToNote(landmarks) ==
    IF landmarks = <<>>
    THEN "null"
    ELSE LET clampedIndex == Max({0, Min(Len(PENTATONIC_SCALE) - 1, noteIndex(landmarks))})
         IN  PENTATONIC_SCALE[clampedIndex + 1]

InitNotes ==
    /\ InitHook
    /\ InitBlendIdle
    /\ utilIn \in Landmarks \X Landmarks
    /\ utilOut = <<>>
    /\ material = <<>>

\* the notes of the two hands of one frame
MapHandsToNotes ==
    /\ utilOut = <<>>
    /\ utilOut' = <<mapHandToNote(utilIn[1]), mapHandToNote(utilIn[2])>>
    /\ UNCHANGED <<utilIn, material, blendVars, hookVars>>

NextNotes == MapHandsToNotes

SpecNotes == InitNotes /\ [][NextNotes]_vars

ScaleIndex(note) == CHOOSE k \in DOMAIN PENTATONIC_SCALE : PENTATONIC_SCALE[k] = note

\* C30: for every hand height, inside or outside the frame, mapHandToNote
\* returns one of the 13 notes C3..E5 of the scale, and of two hands the
\* higher one (smaller mean y) never gets the lower scale index.
C30_NoteInScaleAndMonotonic ==
    utilOut # <<>> =>
        /\ \A i \in 1..2 :
               utilIn[i] # <<>> =>
                   \E k \in DOMAIN PENTATONIC_SCALE : utilOut[i] = PENTATONIC_SCALE[k]
        /\ (/\ utilIn[1] # <<>>
            /\ utilIn[2] # <<>>
            /\ SumY(utilIn[1]) * Len(utilIn[2]) <= SumY(utilIn[2]) * Len(utilIn[1]))
           => ScaleIndex(utilOut[1]) >= ScaleIndex(utilOut[2])

\* one hand above the top edge, one below the bottom edge
C30_Witness ==
    /\ utilIn = << <<-400, -250>>, <<1400>> >>
    /\ utilOut = <<"E5", "C3">>

-----------------------------------------------------------------------------
(* useEmotionDetection: the WebSocket to the emotion service, its frame     *)
(* interval and its reconnect timer.  utilOut holds the state of the hook:  *)
(* the sockets created so far (each with its readyState and whether its     *)
(* frame interval runs), the timers created so far, and the three refs      *)
(* (0 is null); utilIn holds the last event.  Every socket is created by    *)
(* connectWebSocket while isEnabled is true, and its handlers keep reading  *)
(* that value.                                                              *)

MaxSockets == 2          \* sockets created
MaxFramesSent == 1       \* frames sent

CloseCodes == {1000, 1006}

InitEmotion ==
    /\ InitHook
    /\ InitBlendIdle
    /\ utilIn = <<>>
    /\ utilOut = <<[isEnabled |-> FALSE, sockets |-> <<>>, timers |-> <<>>,
                    wsRef |-> 0, reconnectTimeoutRef |-> 0, frameIntervalRef |-> 0,
                    sent |-> 0]>>
    /\ material = <<>>

\* connectWebSocket: a new socket, connecting, kept in wsRef
connectWebSocket(hook) ==
    [hook EXCEPT !.sockets = Append(@, [readyState |-> "connecting", interval |-> FALSE,
                                        failed |-> FALSE]),
                 !.wsRef = Len(hook.sockets) + 1]

\* clearInterval(frameIntervalRef.current); frameIntervalRef.current = null
clearFrameInterval(hook) ==
    IF hook.frameIntervalRef = 0 THEN hook
    ELSE [hook EXCEPT !.sockets[hook.frameIntervalRef].interval = FALSE,
                      !.frameIntervalRef = 0]

\* ws.close(1000): an open socket starts the closing handshake, a socket
\* that is still connecting has its connection failed, a closing or closed
\* socket is left alone
close(socket) ==
    IF socket.readyState = "open" THEN [socket EXCEPT !.readyState = "closing"]
    ELSE IF socket.readyState = "connecting"
         THEN [socket EXCEPT !.readyState = "closing", !.failed = TRUE]
    ELSE socket

\* the effect when the hook becomes enabled (the API key is set)
Enable ==
    /\ ~utilOut[1].isEnabled
    /\ Len(utilOut[1].sockets) < MaxSockets
    /\ utilIn' = <<"enable">>
    /\ utilOut' = <<connectWebSocket([utilOut[1] EXCEPT !.isEnabled = TRUE])>>
    /\ UNCHANGED <<material, blendVars, hookVars>>

\* the cleanup of the effect, when the hook is disabled or unmounted
Disable ==
    LET hook == utilOut[1]
        cleared == clearFrameInterval(hook)
        timers == IF hook.reconnectTimeoutRef = 0 THEN cleared.timers
                  ELSE [cleared.timers EXCEPT ![hook.reconnectTimeoutRef] = FALSE]
        sockets == IF hook.wsRef = 0 THEN cleared.sockets
                   ELSE [cleared.sockets EXCEPT ![hook.wsRef] = close(@)]
    IN  /\ hook.isEnabled
        /\ utilIn' = <<"disable">>
        /\ utilOut' = <<[cleared EXCEPT !.isEnabled = FALSE, !.timers = timers,
                                        !.reconnectTimeoutRef = 0,
                                        !.sockets = sockets, !.wsRef = 0]>>
        /\ UNCHANGED <<material, blendVars, hookVars>>

\* ws.onopen
OnOpen(s) ==
    LET cleared == clearFrameInterval(utilOut[1])
    IN  /\ utilOut[1].sockets[s].readyState = "connecting"
        /\ utilIn' = <<"open">>
        /\ utilOut' = <<[cleared EXCEPT !.sockets[s].readyState = "open",
                                        !.sockets[s].interval = TRUE,
                                        !.frameIntervalRef = s]>>
        /\ UNCHANGED <<material, blendVars, hookVars>>

\* the close codes the browser can report for a socket: a connection that
\* was never established or was failed closes with 1006; an established
\* one closes with the code of the closing handshake, or with 1006 when
\* the connection is lost
CodesOf(socket) ==
    IF socket.readyState = "connecting" \/ socket.failed THEN {1006} ELSE CloseCodes

\* ws.onclose
OnClose(hook, s, code) ==
    LET cleared == [clearFrameInterval(hook) EXCEPT !.sockets[s].readyState = "closed"]
    IN  IF code # 1000
        THEN [cleared EXCEPT !.timers = Append(@, TRUE),
                             !.reconnectTimeoutRef = Len(hook.timers) + 1]
        ELSE cleared

CloseEvent(s, code) ==
    /\ utilOut[1].sockets[s].readyState # "closed"
    /\ code \in CodesOf(utilOut[1].sockets[s])
    /\ utilIn' = <<"close", code>>
    /\ utilOut' = <<OnClose(utilOut[1], s, code)>>
    /\ UNCHANGED <<material, blendVars, hookVars>>

\* the reconnect timer fires, 3 seconds after it was set
ReconnectTimer(t) ==
    /\ utilOut[1].timers[t]
    /\ Len(utilOut[1].sockets) < MaxSockets
    /\ utilIn' = <<"reconnect">>
    /\ utilOut' = <<connectWebSocket([utilOut[1] EXCEPT !.timers[t] = FALSE])>>
    /\ UNCHANGED <<material, blendVars, hookVars>>

\* the frame interval of a socket fires: a frame is sent when it is open
FrameInterval(s) ==
    /\ utilOut[1].sockets[s].interval
    /\ utilOut[1].sockets[s].readyState = "open"
    /\ utilOut[1].sent < MaxFramesSent
    /\ utilIn' = <<"frame">>
    /\ utilOut' = <<[utilOut[1] EXCEPT !.sent = @ + 1]>>
    /\ UNCHANGED <<material, blendVars, hookVars>>

NextEmotion ==
    \/ Enable
    \/ Disable
    \/ \E s \in DOMAIN utilOut[1].sockets : OnOpen(s)
    \/ \E s \in DOMAIN utilOut[1].sockets, code \in CloseCodes : CloseEvent(s, code)
    \/ \E t \in DOMAIN utilOut[1].timers : ReconnectTimer(t)
    \/ \E s \in DOMAIN utilOut[1].sockets : FrameInterval(s)

SpecEmotion == InitEmotion /\ [][NextEmotion]_vars

\* C33: an abnormal close (code other than 1000) while detection is enabled
\* leaves a reconnect timer pending, and the reconnect is made only by that
\* timer; while the hook is disabled no socket is created and no frame is
\* sent.
C33_ReconnectOnlyWhileEnabled ==
    [][ /\ (utilOut[1].isEnabled /\ utilIn' = <<"close", 1006>>)
            => /\ utilOut'[1].reconnectTimeoutRef # 0
               /\ utilOut'[1].timers[utilOut'[1].reconnectTimeoutRef]
        /\ (~utilOut[1].isEnabled /\ ~utilOut'[1].isEnabled)
            => /\ Len(utilOut'[1].sockets) = Len(utilOut[1].sockets)
               /\ utilOut'[1].sent = utilOut[1].sent
      ]_vars

-----------------------------------------------------------------------------
(* The double-buffered fields on their own: any sequence of createDoubleFBO, *)
(* swap and resizeDoubleFBO.  utilOut holds the GPU state, utilIn the last   *)
(* operation with the fields as they were before it, material the fields    *)
(* created so far.                                                           *)

PairWidths == {2, 4}

MaxPairOps == 3          \* operations on the fields

InitPairs ==
    /\ InitHook
    /\ InitBlendIdle
    /\ utilIn = <<>>
    /\ utilOut = <<[fbos |-> EmptyFbos, tex |-> <<>>, clock |-> 0, log |-> <<>>]>>
    /\ material = {}

CreatePair(f, w) ==
    /\ utilIn' = <<"create", f, utilOut[1].fbos>>
    /\ utilOut' = <<setDoubleFBO(utilOut[1], f, w, 2)>>
    /\ material' = material \cup {f}
    /\ UNCHANGED <<blendVars, hookVars>>

SwapPair(f) ==
    /\ f \in material
    /\ utilIn' = <<"swap", f, utilOut[1].fbos>>
    /\ utilOut' = <<swap(utilOut[1], f)>>
    /\ UNCHANGED <<material, blendVars, hookVars>>

ResizePair(f, w) ==
    /\ f \in material
    /\ utilIn' = <<"resize", f, utilOut[1].fbos>>
    /\ utilOut' = <<resizeDoubleFBO(utilOut[1], f, w, 2)>>
    /\ UNCHANGED <<material, blendVars, hookVars>>

NextPairs ==
    /\ Len(utilOut[1].log) + Len(utilOut[1].tex) \div 2 < MaxPairOps
    /\ \E f \in DoubleFields, w \in PairWidths :
          \/ CreatePair(f, w)
          \/ SwapPair(f)
          \/ ResizePair(f, w)

SpecPairs == InitPairs /\ [][NextPairs]_vars

\* read and write of a field are two textures of the field's size
PairOk(g, f) ==
    f \in material =>
        /\ g.fbos[f].read # g.fbos[f].write
        /\ \A id \in {g.fbos[f].read, g.fbos[f].write} :
              /\ g.tex[id].width = g.fbos[f].width
              /\ g.tex[id].height = g.fbos[f].height

\* C34: after any sequence of creations, swaps and resizes the read and
\* write accessors of every double-buffered field refer to two distinct
\* buffers of identical dimensions; a swap exchanges exactly the two handles
\* of its field, and two consecutive swaps restore the assignment.
C34_PairsDistinctAndSwapExchanges ==
    /\ [](\A f \in DoubleFields : PairOk(utilOut[1], f))
    /\ [][ (utilIn' # <<>> /\ utilIn'[1] = "swap") =>
             LET f == utilIn'[2]
             IN  /\ utilOut'[1].fbos[f].read = utilOut[1].fbos[f].write
                 /\ utilOut'[1].fbos[f].write = utilOut[1].fbos[f].read
                 /\ \A o \in DOMAIN EmptyFbos \ {f} : utilOut'[1].fbos[o] = utilOut[1].fbos[o]
                 /\ utilOut'[1].tex = utilOut[1].tex
                 /\ (utilIn # <<>> /\ utilIn[1] = "swap" /\ utilIn[2] = f)
                        => utilOut'[1].fbos = utilIn[3]
       ]_vars

\* the dye field was created, swapped and resized to another width
C34_Witness ==
    /\ utilIn # <<>>
    /\ utilIn[1] = "resize"
    /\ utilIn[2] = "dye"
    /\ Len(utilOut[1].log) = 2
    /\ utilOut[1].log[1].op = "swap"
    /\ utilOut[1].fbos.dye.width = 4
    /\ utilOut[1].fbos.dye.read = 3
    /\ utilOut[1].fbos.dye.write = 4

-----------------------------------------------------------------------------
(* Interrupted transitions (SpecBlend) *)

NumericFields ==
    {"BLOOM_INTENSITY", "BLOOM_THRESHOLD", "SUNRAYS_WEIGHT", "VELOCITY_DISSIPATION",
     "DENSITY_DISSIPATION", "SPLAT_FORCE", "CURL", "PRESSURE"}

Between(x, a, b) == (a <= x /\ x <= b) \/ (b <= x /\ x <= a)

\* every numeric field of config lies between its values in from and to
ConfigBetween(config, from, to) ==
    /\ \A f \in NumericFields : Between(config[f], from[f], to[f])
    /\ \A c \in {"r", "g", "b"} :
          Between(config.BACK_COLOR[c], from.BACK_COLOR[c], to.BACK_COLOR[c])

\* C35: setEmotion changes only the target configuration and the progress;
\* the current configuration stays what it was before the call, so an
\* interrupted transition continues from the configuration reached so far.
C35_SetEmotionKeepsCurrent ==
    /\ [][ IsSetEmotionStep =>
              /\ emotionTransitioner'.currentConfig = emotionTransitioner.currentConfig
              /\ updateResult' = updateResult ]_vars
    /\ []((setCount > 0 /\ updateCount = 0) =>
              emotionTransitioner.currentConfig = utilIn[1])

\* a transition toward Joy interrupted halfway by a request for sadness
C35_Witness ==
    /\ setCount = 2
    /\ updateCount = 0
    /\ interrupted
    /\ lastRequest = [name |-> Str_sadness, confidence |-> Frac(1, 2)]
    /\ emotionTransitioner.transitionProgress = 0
    /\ emotionTransitioner.currentConfig \notin
           {Neutral, emotionPresets(Str_Joy), emotionTransitioner.targetConfig}

\* C36: during a transition with no intervening setEmotion every numeric
\* field of the current configuration lies between its value at the time of
\* setEmotion and its target value, and each update() moves it toward the
\* target or leaves it.
C36_NoOvershoot ==
    /\ [](setCount > 0 =>
              ConfigBetween(emotionTransitioner.currentConfig, utilIn[1],
                            emotionTransitioner.targetConfig))
    /\ [][ IsUpdateStep =>
              ConfigBetween(emotionTransitioner'.currentConfig,
                            emotionTransitioner.currentConfig,
                            emotionTransitioner.targetConfig) ]_vars

\* halfway through an interrupting transition, strictly between start and target
C36_Witness ==
    /\ setCount = 2
    /\ interrupted
    /\ updateCount = 25
    /\ utilIn[1] # Neutral
    /\ emotionTransitioner.currentConfig.CURL # utilIn[1].CURL
    /\ emotionTransitioner.currentConfig.CURL # emotionTransitioner.targetConfig.CURL

-----------------------------------------------------------------------------
(* The sunrays mask and the dye field (Spec) *)

DyeWriters == {"advection", "splat", "alloc"}

\* C37: in every reachable state the dye read buffer holds the output of a
\* dye advection, of a dye splat or of a fresh allocation, never the sunrays
\* mask that render writes into the dye write buffer; every swap of the dye
\* field directly follows a pass that writes the dye write buffer.
C37_MaskNeverBecomesDye ==
    /\ fbosRef # EmptyFbos => textures[fbosRef.dye.read].by \in DyeWriters
    /\ \A i \in DOMAIN passes :
          SwapOf(passes[i], "dye") =>
              /\ i > 1
              /\ passes[i - 1].op = "blit"
              /\ passes[i - 1].target.ref = WR("dye")
              /\ passes[i - 1].prog \in {"advection", "splat"}

\* a frame after a splat: the write buffer holds the mask, the read buffer
\* the advected dye
C37_Witness ==
    /\ handler = "animate"
    /\ counts.splats > 0
    /\ fbosRef # EmptyFbos
    /\ textures[fbosRef.dye.write].by = "sunraysMask"
    /\ textures[fbosRef.dye.read].by = "advection"

-----------------------------------------------------------------------------
(* The animation loop and the test-splat timer over mounts, readiness      *)
(* changes, re-initializations and the unmount.                            *)

MaxLoopRenders == 3      \* host renders

NextLoops ==
    /\ \/ \E isReady \in BOOLEAN, rectOk \in BOOLEAN, elapsed \in ElapsedMs :
             /\ counts.renders < MaxLoopRenders
             /\ HostRender(isReady, rectOk, TRUE, elapsed)
       \/ \E h \in rafPending, elapsed \in ElapsedMs : Frame(h, elapsed)
       \/ TestSplat
       \/ Unmount
    /\ UNCHANGED <<blendVars, utilVars>>

SpecLoops == Init /\ [][NextLoops]_vars

\* the step is an initialization: it starts a loop and a test-splat timer
IsInit == handler' = "init" /\ testSplatTimers' = testSplatTimers + 1

\* the step is the delayed test splat
IsTestSplat == testSplatTimers' = testSplatTimers - 1

\* C38: at most one animation loop is active: there is never more than one
\* pending frame callback, and an initialization leaves none of the
\* callbacks that were pending before it.
C38_OneLoop ==
    /\ [](Cardinality(rafPending) <= 1)
    /\ [][IsInit => (rafPending' \cap rafPending = {} /\ Cardinality(rafPending') = 1)]_vars

\* the engine was initialized, made not ready and initialized again
C38_Witness ==
    /\ handler = "init"
    /\ counts.renders = 3
    /\ testSplatTimers = 2
    /\ effectLive
    /\ Cardinality(rafPending) = 1

\* C39: after the cleanup of the init effect has run, neither a frame nor
\* the delayed test splat issues a GPU pass.
C39_NothingRunsAfterCleanup ==
    [][(~effectLive /\ counts.renders > 0 /\ (IsFrame \/ IsTestSplat)) => clock' = clock]_vars

-----------------------------------------------------------------------------
(* useCalibration: the step index under gesture frames, the 800 ms success  *)
(* timeouts and the skip button.  utilOut holds the state of the hook and   *)
(* the pending success timeouts, each with the step index its callback      *)
(* captured; utilIn holds the last event.  Times are abstracted: a frame    *)
(* says whether the gesture of the current step is detected and whether it  *)
(* has been held for holdDuration.                                          *)

CALIBRATION_STEPS == <<"twoPalmsOut", "twoFists", "victorySignRight", "thumbsUpLeft">>

totalSteps == Len(CALIBRATION_STEPS)

MaxSuccessTimeouts == 2  \* success timeouts set

InitCalibration ==
    /\ InitHook
    /\ InitBlendIdle
    /\ utilIn = <<>>
    /\ utilOut = <<[currentStepIndex |-> 0, isComplete |-> FALSE, isHoldingGesture |-> FALSE,
                    gestureStartTime |-> FALSE, showSuccessAnimation |-> FALSE,
                    canSkip |-> FALSE, timeouts |-> <<>>, set |-> 0, thrown |-> FALSE]>>
    /\ material = <<>>

\* the state updates of moving to the next step, or of completing
advance(cal, capturedIndex) ==
    IF capturedIndex < totalSteps - 1
    THEN [cal EXCEPT !.currentStepIndex = @ + 1, !.isHoldingGesture = FALSE,
                     !.gestureStartTime = FALSE, !.showSuccessAnimation = FALSE,
                     !.canSkip = FALSE]
    ELSE [cal EXCEPT !.isComplete = TRUE, !.showSuccessAnimation = FALSE]

\* skipCurrentStep, with the currentStepIndex of the render it belongs to
skipCurrentStep(cal) ==
    IF cal.currentStepIndex < totalSteps - 1
    THEN [cal EXCEPT !.currentStepIndex = @ + 1, !.isHoldingGesture = FALSE,
                     !.gestureStartTime = FALSE, !.showSuccessAnimation = FALSE,
                     !.canSkip = FALSE]
    ELSE [cal EXCEPT !.isComplete = TRUE]

\* the gesture effect on a hand frame
GestureFrame(detected, held) ==
    LET cal == utilOut[1]
        success == detected /\ cal.gestureStartTime /\ held /\ ~cal.showSuccessAnimation
    IN  /\ ~cal.isComplete
        /\ ~cal.thrown
        /\ utilIn' = <<"frame", detected, held>>
        /\ IF cal.currentStepIndex >= totalSteps
           THEN \* currentStep is undefined: currentStep.id throws
                utilOut' = <<[cal EXCEPT !.thrown = TRUE]>>
           ELSE IF detected
           THEN /\ success => cal.set < MaxSuccessTimeouts
                /\ utilOut' = <<[cal EXCEPT
                       !.isHoldingGesture = TRUE,
                       !.gestureStartTime = TRUE,
                       !.showSuccessAnimation = @ \/ success,
                       !.timeouts = IF success THEN Append(@, cal.currentStepIndex) ELSE @,
                       !.set = IF success THEN @ + 1 ELSE @]>>
           ELSE utilOut' = <<IF cal.isHoldingGesture /\ ~cal.showSuccessAnimation
                             THEN [cal EXCEPT !.isHoldingGesture = FALSE,
                                              !.gestureStartTime = FALSE]
                             ELSE cal>>
        /\ UNCHANGED <<material, blendVars, hookVars>>

\* a success timeout fires, 800 ms after it was set
SuccessTimeout(i) ==
    LET cal == utilOut[1]
        rest == [j \in 1..(Len(cal.timeouts) - 1) |->
                    IF j < i THEN cal.timeouts[j] ELSE cal.timeouts[j + 1]]
    IN  /\ utilIn' = <<"timeout", cal.timeouts[i]>>
        /\ utilOut' = <<advance([cal EXCEPT !.timeouts = rest], cal.timeouts[i])>>
        /\ UNCHANGED <<material, blendVars, hookVars>>

\* the skip button is clicked; it is shown while canSkip is true
Skip ==
    /\ utilOut[1].canSkip
    /\ ~utilOut[1].isComplete
    /\ utilIn' = <<"skip">>
    /\ utilOut' = <<skipCurrentStep(utilOut[1])>>
    /\ UNCHANGED <<material, blendVars, hookVars>>

\* the step has lasted 10 seconds; the success timeouts of earlier steps,
\* set at most 800 ms after the step began, have fired by then
SkipTimer ==
    /\ ~utilOut[1].canSkip
    /\ ~utilOut[1].isComplete
    /\ \A i \in DOMAIN utilOut[1].timeouts :
           utilOut[1].timeouts[i] >= utilOut[1].currentStepIndex
    /\ utilIn' = <<"canSkip">>
    /\ utilOut' = <<[utilOut[1] EXCEPT !.canSkip = TRUE]>>
    /\ UNCHANGED <<material, blendVars, hookVars>>

NextCalibration ==
    \/ \E detected \in BOOLEAN, held \in BOOLEAN : GestureFrame(detected, held)
    \/ \E i \in DOMAIN utilOut[1].timeouts : SuccessTimeout(i)
    \/ Skip
    \/ SkipTimer

SpecCalibration == InitCalibration /\ [][NextCalibration]_vars

\* C40: the step index stays within 0..totalSteps-1 and advances by exactly
\* one step at a time under any interleaving of hold completion, success
\* timeout and skip; calibration is marked complete only from the last step.
C40_StepIndexInRange ==
    /\ [](utilOut[1].currentStepIndex \in 0..(totalSteps - 1))
    /\ [][utilOut'[1].currentStepIndex \in
              {utilOut[1].currentStepIndex, utilOut[1].currentStepIndex + 1}]_vars
    /\ [][(utilOut'[1].isComplete /\ ~utilOut[1].isComplete)
              => utilOut[1].currentStepIndex = totalSteps - 1]_vars
====
